---------------------------- MODULE Spec2Model ----------------------------
(***************************************************************************)
(* A model of the extraction engine of product-scraper:                    *)
(* ProductScraper.scrape_product and the functions it calls                *)
(* (src/price-tracker/scraper/product_scraper.py).                         *)
(*                                                                         *)
(* Text is a sequence of one-character strings.  A character outside ASCII *)
(* is written as a short upper-case name: "INR" is the rupee sign, "EUR",  *)
(* "GBP" and "JPY" the euro, pound and yen signs.                          *)
(***************************************************************************)
EXTENDS Integers, Sequences, FiniteSets, TLC

(***************************************************************************)
(* Bounds of the model.                                                    *)
(***************************************************************************)
\* the longest document the web serves, in elements
MaxPageLen == 2

(***************************************************************************)
(* Python values.                                                          *)
(***************************************************************************)
\* Python's None where a float, a dict or an element is expected
None == [none |-> TRUE]

\* Python's None where a str is expected: no text holds the character "None"
NoneStr == <<"None">>

\* bool(x) of an Optional[str]: None and "" are false
Truthy(s) == s /= NoneStr /\ s /= <<>>

\* a or b, on Optional values whose truth is Truthy
OrElse(a, b) == IF Truthy(a) THEN a ELSE b

(***************************************************************************)
(* Characters and strings.                                                 *)
(***************************************************************************)
Digits == {"0", "1", "2", "3", "4", "5", "6", "7", "8", "9"}

LowerLetters ==
    {"a", "b", "c", "d", "e", "f", "g", "h", "i", "j", "k", "l", "m",
     "n", "o", "p", "q", "r", "s", "t", "u", "v", "w", "x", "y", "z"}

UpperToLower ==
    [c \in {"A", "B", "C", "D", "E", "F", "G", "H", "I", "J", "K", "L", "M",
            "N", "O", "P", "Q", "R", "S", "T", "U", "V", "W", "X", "Y", "Z"} |->
       CASE c = "A" -> "a" [] c = "B" -> "b" [] c = "C" -> "c" [] c = "D" -> "d"
         [] c = "E" -> "e" [] c = "F" -> "f" [] c = "G" -> "g" [] c = "H" -> "h"
         [] c = "I" -> "i" [] c = "J" -> "j" [] c = "K" -> "k" [] c = "L" -> "l"
         [] c = "M" -> "m" [] c = "N" -> "n" [] c = "O" -> "o" [] c = "P" -> "p"
         [] c = "Q" -> "q" [] c = "R" -> "r" [] c = "S" -> "s" [] c = "T" -> "t"
         [] c = "U" -> "u" [] c = "V" -> "v" [] c = "W" -> "w" [] c = "X" -> "x"
         [] c = "Y" -> "y" [] c = "Z" -> "z"]

UpperLetters == DOMAIN UpperToLower

\* str.lower()
Lower(s) ==
    [i \in 1..Len(s) |-> IF s[i] \in UpperLetters THEN UpperToLower[s[i]] ELSE s[i]]

\* the characters Python's \s matches, of those that occur in the model
Whitespace == {" ", "\n", "\t"}

\* s[i:] of Python, with i counted from 1
From(s, i) == IF i > Len(s) THEN <<>> ELSE SubSeq(s, i, Len(s))

\* s[:n]
Take(s, n) == IF n <= 0 THEN <<>> ELSE SubSeq(s, 1, IF n < Len(s) THEN n ELSE Len(s))

\* sub occurs in s at position i
OccursAt(sub, s, i) ==
    /\ i >= 1
    /\ i + Len(sub) - 1 <= Len(s)
    /\ \A k \in 1..Len(sub) : s[i + k - 1] = sub[k]

\* sub in s
Contains(sub, s) == \E i \in 1..(Len(s) + 1) : OccursAt(sub, s, i)

\* the least position >= start of a character of s that lies in set, or 0
FindAny(s, set, start) ==
    LET hits == {i \in start..Len(s) : s[i] \in set}
    IN  IF hits = {} THEN 0 ELSE CHOOSE i \in hits : \A j \in hits : i <= j

\* the least member of a set of positions, or 0 when it is empty
Least(hits) == IF hits = {} THEN 0 ELSE CHOOSE i \in hits : \A j \in hits : i <= j

\* str.strip(): leading and trailing whitespace removed
Strip(s) ==
    LET keep == {i \in 1..Len(s) : s[i] \notin Whitespace}
    IN  IF keep = {} THEN <<>>
        ELSE SubSeq(s, CHOOSE i \in keep : \A j \in keep : i <= j,
                       CHOOSE i \in keep : \A j \in keep : i >= j)

\* the characters of s that are not in set, in order (re.sub of a class by "")
RECURSIVE Without(_, _)
Without(s, set) ==
    IF s = <<>> THEN <<>>
    ELSE IF s[1] \in set THEN Without(Tail(s), set)
    ELSE <<s[1]>> \o Without(Tail(s), set)

\* the length of the longest run of digits of s that starts at position i
RECURSIVE DigitRun(_, _)
DigitRun(s, i) ==
    IF i <= Len(s) /\ s[i] \in Digits THEN 1 + DigitRun(s, i + 1) ELSE 0

\* a string of n copies of the character c
Repeat(c, n) == [i \in 1..n |-> c]


(***************************************************************************)
(* urllib.parse.urlparse(url).netloc, as product_scraper.py:193 uses it.   *)
(* The URLs of the model are ASCII, hold no whitespace and no pair of      *)
(* brackets, so that urlsplit's stripping of control characters and its    *)
(* checks of a bracketed host and of NFKC normalisation change nothing.    *)
(***************************************************************************)
\* the characters urlsplit accepts in a scheme
scheme_chars == LowerLetters \cup UpperLetters \cup Digits \cup {"+", "-", "."}

\* urlsplit: the URL with its scheme and the colon after it removed, when the
\* text before the first colon is a scheme
AfterScheme(url) ==
    LET i == FindAny(url, {":"}, 1)
    IN  IF /\ i > 1
           /\ url[1] \in LowerLetters \cup UpperLetters
           /\ \A k \in 1..(i - 1) : url[k] \in scheme_chars
        THEN From(url, i + 1)
        ELSE url

\* _splitnetloc(url, 2): what lies between a leading "//" and the next of / ? #
SplitNetloc(rest) ==
    LET delim == FindAny(rest, {"/", "?", "#"}, 3)
    IN  IF delim = 0 THEN From(rest, 3) ELSE SubSeq(rest, 3, delim - 1)

\* the network location urlsplit finds; "" when no "//" follows the scheme
Netloc(url) ==
    LET rest == AfterScheme(url)
    IN  IF Take(rest, 2) = <<"/", "/">> THEN SplitNetloc(rest) ELSE <<>>

\* urlsplit raises ValueError("Invalid IPv6 URL") on an unpaired bracket
UrlparseRaises(url) ==
    LET netloc == Netloc(url)
    IN  \/ (Contains(<<"[">>, netloc) /\ ~Contains(<<"]">>, netloc))
        \/ (Contains(<<"]">>, netloc) /\ ~Contains(<<"[">>, netloc))

(***************************************************************************)
(* Words of the model's URLs and documents.                                *)
(***************************************************************************)
amazon   == <<"a", "m", "a", "z", "o", "n">>
flipkart == <<"f", "l", "i", "p", "k", "a", "r", "t">>
ebay     == <<"e", "b", "a", "y">>
meesho   == <<"m", "e", "e", "s", "h", "o">>
myntra   == <<"m", "y", "n", "t", "r", "a">>
http     == <<"h", "t", "t", "p", ":", "/", "/">>
dotcom   == <<".", "c", "o", "m">>
shop     == <<"s", "h", "o", "p">>

\* the site identifiers of _identify_site
Sites == {"amazon", "flipkart", "ebay", "meesho", "myntra", "generic"}

\* _identify_site with the tests for amazon and flipkart in the other order
_identify_site_FlipkartFirst(url) ==
    LET domain == Lower(Netloc(url))
    IN  IF Contains(flipkart, domain) THEN "flipkart"
        ELSE IF Contains(amazon, domain) THEN "amazon"
        ELSE IF Contains(ebay, domain) THEN "ebay"
        ELSE IF Contains(meesho, domain) THEN "meesho"
        ELSE IF Contains(myntra, domain) THEN "myntra"
        ELSE "generic"

(***************************************************************************)
(* ProductScraper._identify_site; defined where urlparse does not raise.   *)
(***************************************************************************)
_identify_site(url) ==
    LET domain == Lower(Netloc(url))
    IN  IF Contains(amazon, domain) THEN "amazon"
        ELSE IF Contains(flipkart, domain) THEN "flipkart"
        ELSE IF Contains(ebay, domain) THEN "ebay"
        ELSE IF Contains(meesho, domain) THEN "meesho"
        ELSE IF Contains(myntra, domain) THEN "myntra"
        ELSE "generic"

(***************************************************************************)
(* Prices.  float(text) of a text digits[.digits] is the exact decimal     *)
(* [m, e] = m / 10^e with no trailing zero in the fraction, so that two    *)
(* prices are equal as numbers exactly when they are equal as records.     *)
(***************************************************************************)
\* int(ds) of a sequence of digits
RECURSIVE DigitsValue(_)
DigitsValue(ds) ==
    IF ds = <<>> THEN 0
    ELSE 10 * DigitsValue(SubSeq(ds, 1, Len(ds) - 1))
         + (CHOOSE d \in 0..9 : ToString(d) = ds[Len(ds)])

\* a sequence of digits with the zeros at its end removed
RECURSIVE StripZeros(_)
StripZeros(ds) ==
    IF ds /= <<>> /\ ds[Len(ds)] = "0" THEN StripZeros(SubSeq(ds, 1, Len(ds) - 1))
    ELSE ds

\* float(whole "." frac)
Float(whole, frac) ==
    LET f == StripZeros(frac)
    IN  [m |-> DigitsValue(whole \o f), e |-> Len(f)]

RECURSIVE Pow10(_)
Pow10(n) == IF n = 0 THEN 1 ELSE 10 * Pow10(n - 1)

\* price > n, for a price and an integer n
PriceGreater(price, n) == price.m > n * Pow10(price.e)

\* bool(price) of an Optional[float]
PriceTruthy(price) == price /= None /\ price.m /= 0

\* PriceNoise with the comma forgotten: a group separator ends the number
PriceNoise_NoComma == {"INR", "$", "EUR", "GBP", "JPY"} \cup Whitespace

\* the characters re.sub(r"[₹$,€£¥\s]", "", text) removes
PriceNoise == {"INR", "$", ",", "EUR", "GBP", "JPY"} \cup Whitespace

\* re.findall(r"\d+\.?\d*", cleaned)[0] as [whole, frac], or None
FirstNumber(cleaned) ==
    LET i == FindAny(cleaned, Digits, 1)
    IN  IF i = 0 THEN None
        ELSE LET n == DigitRun(cleaned, i)
                 j == i + n
                 dot == j <= Len(cleaned) /\ cleaned[j] = "."
                 k == IF dot THEN DigitRun(cleaned, j + 1) ELSE 0
             IN  [whole |-> SubSeq(cleaned, i, j - 1),
                  frac  |-> IF dot THEN SubSeq(cleaned, j + 1, j + k) ELSE <<>>]

\* ProductScraper._parse_price
_parse_price(text) ==
    IF ~Truthy(text) THEN None
    ELSE LET cleaned == Without(text, PriceNoise)
             number  == FirstNumber(cleaned)
         IN  IF number = None THEN None
             ELSE LET price == Float(number.whole, number.frac)
                  IN  IF PriceGreater(price, 0) THEN price ELSE None

(***************************************************************************)
(* Documents.  A parsed document (BeautifulSoup) is the sequence of its    *)
(* elements in document order.  An element has a tag, an id ("" for none), *)
(* classes, the "tag.class" of each of its ancestors, attributes (NoneStr  *)
(* for an attribute it lacks) and the text of its one text node.           *)
(***************************************************************************)
AttrNames == {"property", "content", "src", "data-src", "data-old-hires", "alt"}

NoAttrs == [a \in AttrNames |-> NoneStr]

El(tag, id, classes, within, text) ==
    [tag |-> tag, id |-> id, classes |-> classes, within |-> within,
     attrs |-> NoAttrs, text |-> text]

Meta(property, content) ==
    [tag |-> "meta", id |-> "", classes |-> {}, within |-> {},
     attrs |-> [NoAttrs EXCEPT !["property"] = property, !["content"] = content],
     text |-> <<>>]

Img(id, classes, within, src, alt) ==
    [tag |-> "img", id |-> id, classes |-> classes, within |-> within,
     attrs |-> [NoAttrs EXCEPT !["src"] = src, !["alt"] = alt],
     text |-> <<>>]

\* a CSS selector "tag#id.class.class" below an ancestor "tag.class" ("" for none)
Css(tag, id, classes, within) ==
    [tag |-> tag, id |-> id, classes |-> classes, within |-> within]

Matches(el, css) ==
    /\ el.tag = css.tag
    /\ css.id = "" \/ el.id = css.id
    /\ css.classes \subseteq el.classes
    /\ css.within = "" \/ css.within \in el.within

\* soup.select_one(css): the first element in document order that matches
select_one(soup, css) ==
    LET i == Least({k \in 1..Len(soup) : Matches(soup[k], css)})
    IN  IF i = 0 THEN None ELSE soup[i]

\* soup.find(tag)
find(soup, tag) ==
    LET i == Least({k \in 1..Len(soup) : soup[k].tag = tag})
    IN  IF i = 0 THEN None ELSE soup[i]

\* soup.find('meta', {'property': property})
find_meta(soup, property) ==
    LET i == Least({k \in 1..Len(soup) :
                      soup[k].tag = "meta" /\ soup[k].attrs["property"] = property})
    IN  IF i = 0 THEN None ELSE soup[i]

\* a or b, on Optional elements (an element is always true)
OrElem(a, b) == IF a /= None THEN a ELSE b

\* elem.get_text(strip=True) and elem.get_text()
get_text(el, strip) == IF strip THEN Strip(el.text) ELSE el.text

\* elem.get(attr)
get(el, attr) == el.attrs[attr]

\* s.replace(sub, ""), for a non-empty sub
RECURSIVE Remove(_, _)
Remove(s, sub) ==
    IF s = <<>> THEN <<>>
    ELSE IF OccursAt(sub, s, 1) THEN Remove(From(s, Len(sub) + 1), sub)
    ELSE <<s[1]>> \o Remove(Tail(s), sub)

\* what every adapter returns when it has a name and a price
ProductInfo(name, price, url, image, availability) ==
    [name |-> name, price |-> price, url |-> url, image_url |-> image,
     availability |-> availability]

(***************************************************************************)
(* The site adapters of ProductScraper.                                    *)
(***************************************************************************)
og_title     == <<"o", "g", ":", "t", "i", "t", "l", "e">>
og_image     == <<"o", "g", ":", "i", "m", "a", "g", "e">>
price_amount == <<"p", "r", "o", "d", "u", "c", "t", ":", "p", "r", "i", "c", "e", ":", "a", "m", "o", "u", "n", "t">>
DetailsAbout == <<"D", "e", "t", "a", "i", "l", "s", " ", "a", "b", "o", "u", "t">>

\* for selector in selectors: elem = soup.select_one(selector); if elem: ... break
\* the element of the first selector that matches, or None
RECURSIVE FirstSelected(_, _)
FirstSelected(soup, selectors) ==
    IF selectors = <<>> THEN None
    ELSE LET elem == select_one(soup, Head(selectors))
         IN  IF elem /= None THEN elem ELSE FirstSelected(soup, Tail(selectors))

\* for selector in price_selectors: ... price = self._parse_price(...); if price: break
\* the first price that parses, of the elements the selectors match, or None
RECURSIVE FirstPrice(_, _)
FirstPrice(soup, selectors) ==
    IF selectors = <<>> THEN None
    ELSE LET elem  == select_one(soup, Head(selectors))
             price == IF elem = None THEN None ELSE _parse_price(get_text(elem, TRUE))
         IN  IF PriceTruthy(price) THEN price ELSE FirstPrice(soup, Tail(selectors))

\* ProductScraper._scrape_flipkart
_scrape_flipkart(soup, url) ==
    LET name_elem == FirstSelected(soup, <<Css("span", "", {"VU-ZEz"}, ""),
                                           Css("span", "", {"B_NuCI"}, ""),
                                           Css("h1", "", {"yhB1nd"}, "")>>)
        name  == IF name_elem = None THEN NoneStr ELSE get_text(name_elem, TRUE)
        price == FirstPrice(soup, <<Css("div", "", {"Nx9bqj", "CxhGGd"}, ""),
                                    Css("div", "", {"_30jeq3", "_16Jk6d"}, ""),
                                    Css("div", "", {"_30jeq3"}, "")>>)
        img_elem == FirstSelected(soup, <<Css("img", "", {"_53J4C-"}, ""),
                                          Css("img", "", {"_396cs4"}, "")>>)
        image == IF img_elem = None THEN NoneStr ELSE get(img_elem, "src")
    IN  IF Truthy(name) /\ PriceTruthy(price)
        THEN ProductInfo(name, price, url, image, "In Stock")
        ELSE None

\* _scrape_amazon with the title taken as it stands in the document, its
\* surrounding whitespace kept
_scrape_amazon_TitleNotStripped(soup, url) ==
    LET name_elem == select_one(soup, Css("span", "productTitle", {}, ""))
        name == IF name_elem = None THEN NoneStr ELSE get_text(name_elem, FALSE)
        price_elem == OrElem(select_one(soup, Css("span", "", {"a-price-whole"}, "")),
                             select_one(soup, Css("span", "priceblock_ourprice", {}, "")))
        price == IF price_elem = None THEN None
                 ELSE _parse_price(get_text(price_elem, FALSE))
    IN  IF Truthy(name) /\ PriceTruthy(price)
        THEN ProductInfo(name, price, url, NoneStr, "In Stock")
        ELSE None

\* ProductScraper._scrape_amazon
_scrape_amazon(soup, url) ==
    LET name_elem == select_one(soup, Css("span", "productTitle", {}, ""))
        name == IF name_elem = None THEN NoneStr ELSE get_text(name_elem, TRUE)
        price_elem == OrElem(select_one(soup, Css("span", "", {"a-price-whole"}, "")),
                             select_one(soup, Css("span", "priceblock_ourprice", {}, "")))
        price == IF price_elem = None THEN None
                 ELSE _parse_price(get_text(price_elem, FALSE))
        img_elem == OrElem(select_one(soup, Css("img", "landingImage", {}, "")),
                           select_one(soup, Css("img", "", {"a-dynamic-image"}, "")))
        image == IF img_elem = None THEN NoneStr
                 ELSE OrElse(get(img_elem, "data-old-hires"), get(img_elem, "src"))
    IN  IF Truthy(name) /\ PriceTruthy(price)
        THEN ProductInfo(name, price, url, image, "In Stock")
        ELSE None

\* ProductScraper._scrape_ebay
_scrape_ebay(soup, url) ==
    LET name_elem == FirstSelected(soup,
                        <<Css("span", "", {}, "h1.x-item-title__mainTitle"),
                          Css("h1", "itemTitle", {}, "")>>)
        name == IF name_elem = None THEN NoneStr
                ELSE Strip(Remove(get_text(name_elem, TRUE), DetailsAbout))
        price == FirstPrice(soup,
                        <<Css("span", "", {"ux-textspans"}, "div.x-price-primary"),
                          Css("span", "", {"x-price-approx__price"}, "")>>)
        img_elem == FirstSelected(soup,
                        <<Css("img", "", {}, "div.ux-image-carousel-item"),
                          Css("img", "icImg", {}, "")>>)
        image == IF img_elem = None THEN NoneStr ELSE get(img_elem, "src")
    IN  IF Truthy(name) /\ PriceTruthy(price)
        THEN ProductInfo(name, price, url, image, "In Stock")
        ELSE None

\* ProductScraper._scrape_generic
_scrape_generic(soup, url) ==
    LET title_tag == OrElem(find_meta(soup, og_title), find(soup, "h1"))
        name == IF title_tag = None THEN NoneStr
                ELSE OrElse(get(title_tag, "content"), get_text(title_tag, TRUE))
        price_tag == find_meta(soup, price_amount)
        price == IF price_tag = None THEN None
                 ELSE _parse_price(get(price_tag, "content"))
        img_tag == find_meta(soup, og_image)
        image == IF img_tag = None THEN NoneStr ELSE get(img_tag, "content")
    IN  IF Truthy(name) /\ PriceTruthy(price)
        THEN ProductInfo(name, price, url, image, "Unknown")
        ELSE None

\* re.compile(r'₹\d+').search(text)
HasRupeeNumber(text) ==
    \E i \in 1..(Len(text) - 1) : text[i] = "INR" /\ text[i + 1] \in Digits

\* ProductScraper._extract_meesho
_extract_meesho(soup, url) ==
    LET ni == Least({k \in 1..Len(soup) :
                       /\ soup[k].tag \in {"h1", "h2", "span", "p"}
                       /\ Len(get_text(soup[k], TRUE)) > 10
                       /\ Len(get_text(soup[k], TRUE)) < 200})
        name == IF ni = 0 THEN NoneStr ELSE get_text(soup[ni], TRUE)
        pi == Least({k \in 1..Len(soup) :
                       /\ HasRupeeNumber(soup[k].text)
                       /\ LET parsed == _parse_price(Strip(soup[k].text))
                          IN  PriceTruthy(parsed) /\ PriceGreater(parsed, 10)})
        price == IF pi = 0 THEN None ELSE _parse_price(Strip(soup[pi].text))
        img_elem == find(soup, "img")
        image == IF img_elem = None THEN NoneStr
                 ELSE OrElse(get(img_elem, "src"), get(img_elem, "data-src"))
    IN  IF Truthy(name) /\ PriceTruthy(price)
        THEN ProductInfo(name, price, url, image, "In Stock")
        ELSE None

\* img[alt][src]: the first img element that has both attributes
select_img_alt_src(soup) ==
    LET i == Least({k \in 1..Len(soup) :
                      /\ soup[k].tag = "img"
                      /\ get(soup[k], "alt") /= NoneStr
                      /\ get(soup[k], "src") /= NoneStr})
    IN  IF i = 0 THEN None ELSE soup[i]

\* _extract_myntra with the name left out of the final test
_extract_myntra_PriceOnly(soup, url) ==
    LET name_elem == OrElem(select_one(soup, Css("h1", "", {"pdp-title"}, "")),
                     OrElem(select_one(soup, Css("h1", "", {"pdp-name"}, "")),
                            select_one(soup, Css("h1", "", {}, ""))))
        name == IF name_elem = None THEN NoneStr ELSE get_text(name_elem, TRUE)
        price_elem == OrElem(select_one(soup, Css("strong", "", {}, "span.pdp-price")),
                      OrElem(select_one(soup, Css("strong", "", {"pdp-price"}, "")),
                             select_one(soup, Css("span", "", {"pdp-price"}, ""))))
        price == IF price_elem = None THEN None
                 ELSE _parse_price(get_text(price_elem, TRUE))
    IN  IF PriceTruthy(price)
        THEN ProductInfo(name, price, url, NoneStr, "In Stock")
        ELSE None

\* ProductScraper._extract_myntra
_extract_myntra(soup, url) ==
    LET name_elem == OrElem(select_one(soup, Css("h1", "", {"pdp-title"}, "")),
                     OrElem(select_one(soup, Css("h1", "", {"pdp-name"}, "")),
                            select_one(soup, Css("h1", "", {}, ""))))
        name == IF name_elem = None THEN NoneStr ELSE get_text(name_elem, TRUE)
        price_elem == OrElem(select_one(soup, Css("strong", "", {}, "span.pdp-price")),
                      OrElem(select_one(soup, Css("strong", "", {"pdp-price"}, "")),
                             select_one(soup, Css("span", "", {"pdp-price"}, ""))))
        price == IF price_elem = None THEN None
                 ELSE _parse_price(get_text(price_elem, TRUE))
        img_elem == OrElem(select_one(soup, Css("img", "", {"img-responsive", "img-center"}, "")),
                    OrElem(select_one(soup, Css("img", "", {}, "div.image-grid-image")),
                    OrElem(select_one(soup, Css("img", "", {"pdp-img"}, "")),
                           select_img_alt_src(soup))))
        found == IF img_elem = None THEN NoneStr ELSE get(img_elem, "src")
        meta_img == find_meta(soup, og_image)
        image == IF Truthy(found) THEN found
                 ELSE IF meta_img /= None THEN get(meta_img, "content")
                 ELSE found
    IN  IF Truthy(name) /\ PriceTruthy(price)
        THEN ProductInfo(name, price, url, image, "In Stock")
        ELSE None

(***************************************************************************)
(* The inputs of the model: the URLs a caller passes, and the documents    *)
(* the web serves for them.                                                *)
(***************************************************************************)
URLs ==
    { http \o amazon \o dotcom,                          \* http://amazon.com
      http \o flipkart \o dotcom \o <<"/", "p">>,                \* http://flipkart.com/p
      http \o ebay \o dotcom \o <<"?", "q">>,                    \* http://ebay.com?q
      http \o meesho \o dotcom,                          \* http://meesho.com
      <<"H", "T", "T", "P", ":", "/", "/", "M", "Y", "N", "T", "R", "A", ".", "c", "o", "m">>,                               \* HTTP://MYNTRA.com
      http \o shop \o dotcom \o <<"/">> \o amazon,           \* http://shop.com/amazon
      amazon \o dotcom,                                  \* amazon.com
      http \o <<"[">> \o amazon \o dotcom }                  \* http://[amazon.com

\* the elements documents are made of, by number
ElementPool ==
    << El("span", "productTitle", {}, {}, <<" ", "T", "e", "s", "t", " ", "W", "i", "d", "g", "e", "t", " ">>),
      El("span", "", {"a-price-whole"}, {}, <<"INR", "1", ",", "2", "3", "4">>),
      El("span", "", {"VU-ZEz"}, {}, <<"P", "h", "o", "n", "e">>),
      El("div", "", {"Nx9bqj", "CxhGGd"}, {}, <<"INR", "9", "9", "9">>),
      El("span", "", {}, {"h1.x-item-title__mainTitle"}, <<"D", "e", "t", "a", "i", "l", "s", " ", "a", "b", "o", "u", "t", " ", "L", "a", "m", "p">>),
      El("span", "", {"ux-textspans"}, {"div.x-price-primary"}, <<"$", "1", "2", ".", "5", "0">>),
      Meta(og_title, <<"G", "a", "d", "g", "e", "t">>),
      Meta(price_amount, <<"4", "9", ".", "9", "9">>),
      Meta(price_amount, <<"0", ".", "0", "0">>),
      El("h1", "", {"pdp-title"}, {}, <<"C", "o", "t", "t", "o", "n", " ", "K", "u", "r", "t", "a", " ", "S", "e", "t">>),
      El("strong", "", {}, {"span.pdp-price"}, <<"INR", "7", "9", "9">>),
      El("h1", "", {}, {}, <<" ">>),
      El("p", "", {}, {}, Repeat("x", 200)),
      Img("landingImage", {"pdp-img"}, {}, <<"a", ".", "j", "p", "g">>, <<"a">>) >>

\* every document of n elements of the pool, each document written as the
\* sequence of the numbers of its elements
Pages(n) == [1..n -> 1..Len(ElementPool)]

\* BeautifulSoup(response.content, 'html.parser'): the document of a page
Soup(p) == [i \in 1..Len(p) |-> ElementPool[p[i]]]

(***************************************************************************)
(* ProductScraper.scrape_product as a state machine: one call, from its    *)
(* entry to its return (pc = "done") or to the exception that leaves it    *)
(* (pc = "raised").                                                        *)
(***************************************************************************)
VARIABLES
    url,                 \* the argument of the call
    page,                \* the page the URL serves while the call runs
    SELENIUM_AVAILABLE,  \* product_scraper.py:24, 27: set when the module is imported
    pc,                  \* where the call is
    site,                \* scrape_product's local: the site identifier
    attempt,             \* the iterations of the fetch loop that have run
    renders,             \* the browser renderings that have been started
    delays,              \* the time.sleep(self.delay_between_requests) calls made
    outcomes,            \* how each fetch or rendering so far ended, in order
    adapter,             \* the adapter that was last applied to a document
    driver,              \* the browser session: "none", "open" or "quit"
    result               \* the value returned (None until then, and on failure)

VARIABLES
    session,             \* product_scraper.py:34: self.session, as the URLs that
                         \* were requested through it (its connection pool and its
                         \* cookie jar keep what these requests left)
    parked               \* the locals of a second scrape_product call on the same
                         \* engine, while the first one runs (None: no second call)

vars == <<url, page, SELENIUM_AVAILABLE, pc, site, attempt, renders, delays,
          outcomes, adapter, driver, result, session, parked>>

VARIABLES
    text,                \* the argument of a _parse_price call
    price,               \* what _parse_price(text) returned
    reparsed             \* what _parse_price(str(price)) returned

parser_vars == <<text, price, reparsed>>

VARIABLES
    products,            \* the rows of the table products
    price_history,       \* the rows of the table price_history, in rowid order
    sqlite_sequence,     \* AUTOINCREMENT: the largest id each table has given out
    db_return            \* the last DatabaseManager call and what it returned

db_vars == <<products, price_history, sqlite_sequence, db_return>>

VARIABLES
    svc,                 \* where the run of check_all_prices is
    listed,              \* main.py:46: products, the list get_all_products returned
    idx,                 \* main.py:57: i, how many products of the list were taken up
    successful_checks,   \* main.py:55
    alerts_sent,         \* main.py:54
    notifications,       \* the calls of notifier.send_price_alert made
    sleeps,              \* the time.sleep(config.SLEEP_BETWEEN_REQUESTS) calls made
    results,             \* main.py:101: what send_price_alert returned last,
                         \* for each channel whether the alert went out
    TELEGRAM_BOT_TOKEN   \* config.py:22: whether the environment sets a token

service_vars == <<svc, listed, idx, successful_checks, alerts_sent, notifications, sleeps, results, TELEGRAM_BOT_TOKEN>>

\* the state that neither _identify_site nor _parse_price touches
store == <<db_vars, service_vars>>

\* the state that no step of a scrape_product call touches
beyond == <<parser_vars, store, parked>>

\* the state that a step of a call which sends no request leaves alone
outside == <<beyond, session>>

\* ProductScraper.__init__: a new session, and no call under way
EngineNew == session = {} /\ parked = None

\* no _parse_price call is under way
ParserIdle == text = <<>> /\ price = None /\ reparsed = None

\* no run of check_all_prices is under way
ServiceIdle ==
    /\ TELEGRAM_BOT_TOKEN = FALSE
    /\ results = None
    /\ svc = "idle"
    /\ listed = <<>>
    /\ idx = 0
    /\ successful_checks = 0
    /\ alerts_sent = 0
    /\ notifications = 0
    /\ sleeps = 0

\* DatabaseManager.init_database on a new file: empty tables, no call made
DbEmpty ==
    /\ products = {}
    /\ price_history = <<>>
    /\ sqlite_sequence = [products |-> 0, price_history |-> 0]
    /\ db_return = [op |-> "none"]

\* ProductScraper.__init__: self.retry_attempts
retry_attempts == 3

Init ==
    /\ url \in URLs
    /\ \E n \in 0..MaxPageLen : page \in Pages(n)
    /\ SELENIUM_AVAILABLE \in BOOLEAN
    /\ pc = "call"
    /\ site = "?"
    /\ attempt = 0
    /\ renders = 0
    /\ delays = 0
    /\ outcomes = <<>>
    /\ adapter = "none"
    /\ driver = "none"
    /\ result = None
    /\ EngineNew
    /\ ParserIdle
    /\ DbEmpty
    /\ ServiceIdle

\* UsesSelenium with myntra forgotten
UsesSelenium_MeeshoOnly(s, available) == s = "meesho" /\ available

\* product_scraper.py:45: the sites that are rendered in a browser
UsesSelenium(s, available) == s \in {"meesho", "myntra"} /\ available

\* scrape_product up to its dispatch: _identify_site is called outside any try,
\* so the ValueError of urlparse leaves the call
Identify ==
    /\ pc = "call"
    /\ IF UrlparseRaises(url)
       THEN pc' = "raised" /\ UNCHANGED site
       ELSE LET s == _identify_site(url)
            IN  /\ site' = s
                /\ pc' = IF UsesSelenium(s, SELENIUM_AVAILABLE) THEN "selenium" ELSE "fetch"
    /\ UNCHANGED <<url, page, SELENIUM_AVAILABLE, attempt, renders, delays, outcomes,
                   adapter, driver, result>>
    /\ UNCHANGED outside

\* StaticAdapter with the ebay branch forgotten: ebay pages go to the fallback
StaticAdapter_NoEbay(s) == IF s \in {"amazon", "flipkart"} THEN s ELSE "generic"

\* product_scraper.py:59-66: the adapter the fetch loop applies
StaticAdapter(s) == IF s \in {"amazon", "flipkart", "ebay"} THEN s ELSE "generic"

Extract(which, soup, u) ==
    CASE which = "amazon"   -> _scrape_amazon(soup, u)
      [] which = "flipkart" -> _scrape_flipkart(soup, u)
      [] which = "ebay"     -> _scrape_ebay(soup, u)
      [] which = "generic"  -> _scrape_generic(soup, u)
      [] which = "meesho"   -> _extract_meesho(soup, u)
      [] which = "myntra"   -> _extract_myntra(soup, u)

\* product_scraper.py:68: product_info and its name and its price are all true
Complete(product_info) ==
    /\ product_info /= None
    /\ Truthy(product_info.name)
    /\ PriceTruthy(product_info.price)

\* product_scraper.py:69: product_info['site'] = site
WithSite(product_info, s) ==
    [k \in DOMAIN product_info \cup {"site"} |->
        IF k = "site" THEN s ELSE product_info[k]]

\* NextIteration with a failed iteration made terminal: the call returns at once
NextIteration_ReturnsAtOnce(outcome) ==
    /\ attempt' = attempt + 1
    /\ outcomes' = Append(outcomes, outcome)
    /\ pc' = "done"
    /\ result' = None

\* NextIteration with the loop running one iteration too many
NextIteration_OneMore(outcome) ==
    /\ attempt' = attempt + 1
    /\ outcomes' = Append(outcomes, outcome)
    /\ pc' = IF attempt + 1 <= retry_attempts THEN "fetch" ELSE "done"
    /\ result' = None

\* the end of an iteration that did not return: the next one, or line 83
NextIteration(outcome) ==
    /\ attempt' = attempt + 1
    /\ outcomes' = Append(outcomes, outcome)
    /\ pc' = IF attempt + 1 < retry_attempts THEN "fetch" ELSE "done"
    /\ result' = None

\* SleepsAfter with the attempts counted from 1: one delay too few
SleepsAfter_CountsFromOne(i) == i + 1 < retry_attempts - 1

\* product_scraper.py:77: a delay follows a RequestException of iteration i
\* (counted from 0) unless it is the last iteration
SleepsAfter(i) == i < retry_attempts - 1

\* an iteration whose session.get or raise_for_status raises RequestException
FetchRequestException ==
    /\ pc = "fetch"
    /\ delays' = IF SleepsAfter(attempt) THEN delays + 1 ELSE delays
    /\ NextIteration("RequestException")
    /\ session' = session \cup {url}
    /\ UNCHANGED <<url, page, SELENIUM_AVAILABLE, site, renders, adapter, driver>>
    /\ UNCHANGED beyond

\* FetchException with the delay of the RequestException handler performed
\* after any other exception as well
FetchException_Delays ==
    /\ pc = "fetch"
    /\ delays' = IF SleepsAfter(attempt) THEN delays + 1 ELSE delays
    /\ NextIteration("Exception")
    /\ session' = session \cup {url}
    /\ UNCHANGED <<url, page, SELENIUM_AVAILABLE, site, renders, adapter, driver>>
    /\ UNCHANGED beyond

\* an iteration that raises any other exception before an adapter has run
FetchException ==
    /\ pc = "fetch"
    /\ NextIteration("Exception")
    /\ session' = session \cup {url}
    /\ UNCHANGED <<url, page, SELENIUM_AVAILABLE, site, renders, delays, adapter, driver>>
    /\ UNCHANGED beyond

\* an iteration that gets the document and applies the adapter.  An adapter
\* returns a dict with a name and a price or None, and on None the warning of
\* line 73 raises AttributeError, which line 79 catches: the loop goes on
FetchPage ==
    /\ pc = "fetch"
    /\ adapter' = StaticAdapter(site)
    /\ LET product_info == Extract(adapter', Soup(page), url)
       IN  IF Complete(product_info)
           THEN /\ result' = WithSite(product_info, site)
                /\ attempt' = attempt + 1
                /\ outcomes' = Append(outcomes, "ok")
                /\ pc' = "done"
           ELSE NextIteration("incomplete")
    /\ session' = session \cup {url}
    /\ UNCHANGED <<url, page, SELENIUM_AVAILABLE, site, renders, delays, driver>>
    /\ UNCHANGED beyond

(***************************************************************************)
(* ProductScraper._scrape_with_selenium, step by step.  Every exception is *)
(* caught at line 114, which logs it and returns None; driver.quit() is    *)
(* called at line 106 only.                                                *)
(***************************************************************************)
\* SeleniumFailed with a failed rendering tried again while the budget lasts
SeleniumFailed_Retries(outcome) ==
    /\ outcomes' = Append(outcomes, outcome)
    /\ result' = None
    /\ pc' = IF Len(outcomes') < retry_attempts THEN "selenium" ELSE "done"

\* what line 114-116 does: the call returns None
SeleniumFailed(outcome) ==
    /\ outcomes' = Append(outcomes, outcome)
    /\ result' = None
    /\ pc' = "done"

\* line 95: webdriver.Chrome(...) starts a browser
SeleniumStart ==
    /\ pc = "selenium"
    /\ renders' = renders + 1
    /\ driver' = "open"
    /\ pc' = "get"
    /\ UNCHANGED <<url, page, SELENIUM_AVAILABLE, site, attempt, delays, outcomes,
                   adapter, result>>
    /\ UNCHANGED outside

\* line 95: ChromeDriverManager().install() or webdriver.Chrome(...) raises;
\* no browser was started
SeleniumStartFails ==
    /\ pc = "selenium"
    /\ renders' = renders + 1
    /\ SeleniumFailed("start_failed")
    /\ UNCHANGED <<url, page, SELENIUM_AVAILABLE, site, attempt, delays, adapter, driver>>
    /\ UNCHANGED outside

\* line 96: driver.get(url) loads the document
SeleniumGet ==
    /\ pc = "get"
    /\ pc' = "wait"
    /\ UNCHANGED <<url, page, SELENIUM_AVAILABLE, site, attempt, renders, delays,
                   outcomes, adapter, driver, result>>
    /\ UNCHANGED outside

\* line 96: driver.get(url) raises WebDriverException (navigation fails)
SeleniumGetFails ==
    /\ pc = "get"
    /\ SeleniumFailed("navigation_failed")
    /\ UNCHANGED <<url, page, SELENIUM_AVAILABLE, site, attempt, renders, delays,
                   adapter, driver>>
    /\ UNCHANGED outside

\* By.TAG_NAME "h1" is located in the document
HasMarker(soup) == find(soup, "h1") /= None

\* line 99-101: the h1 appears within the 10 seconds of the wait
SeleniumWait ==
    /\ pc = "wait"
    /\ HasMarker(Soup(page))
    /\ pc' = "extract"
    /\ UNCHANGED <<url, page, SELENIUM_AVAILABLE, site, attempt, renders, delays,
                   outcomes, adapter, driver, result>>
    /\ UNCHANGED outside

\* line 99-101: TimeoutException: the document has no h1, or it came too late
SeleniumWaitTimeout ==
    /\ pc = "wait"
    /\ SeleniumFailed("timeout")
    /\ UNCHANGED <<url, page, SELENIUM_AVAILABLE, site, attempt, renders, delays,
                   adapter, driver>>
    /\ UNCHANGED outside

\* line 105-112: page_source is parsed, the browser is quit, the extractor of
\* the site is applied and its value returned as it is
SeleniumExtract ==
    /\ pc = "extract"
    /\ driver' = "quit"
    /\ adapter' = site
    /\ result' = Extract(site, Soup(page), url)
    /\ outcomes' = Append(outcomes, IF result' = None THEN "incomplete" ELSE "ok")
    /\ pc' = "done"
    /\ UNCHANGED <<url, page, SELENIUM_AVAILABLE, site, attempt, renders, delays>>
    /\ UNCHANGED outside

Next ==
    \/ Identify
    \/ FetchRequestException
    \/ FetchException
    \/ FetchPage
    \/ SeleniumStart
    \/ SeleniumStartFails
    \/ SeleniumGet
    \/ SeleniumGetFails
    \/ SeleniumWait
    \/ SeleniumWaitTimeout
    \/ SeleniumExtract

Spec == Init /\ [][Next]_vars

(***************************************************************************)
(* What the properties below speak of.                                     *)
(***************************************************************************)
\* the call has returned a value
Returned == pc = "done"

\* the rendering strategy the call has taken, once it has taken one
Strategy ==
    IF pc \in {"selenium", "get", "wait", "extract"} \/ renders > 0 THEN "dynamic"
    ELSE IF pc = "fetch" \/ attempt > 0 THEN "static"
    ELSE "none"

\* every fetch or rendering so far ended as `outcome`, and there was one
AllOutcomes(outcome) ==
    /\ outcomes /= <<>>
    /\ \A i \in 1..Len(outcomes) : outcomes[i] = outcome

\* the result is a dict, with a name and a price as a successful one has them
Success == result /= None /\ Complete(result)

\* how far the call has come: every step of the call raises it
Progress ==
    10 * (attempt + renders)
    + (CASE pc = "call" -> 0
         [] pc \in {"fetch", "selenium"} -> 1
         [] pc = "get" -> 2
         [] pc = "wait" -> 3
         [] pc = "extract" -> 4
         [] pc \in {"done", "raised"} -> 5)

(***************************************************************************)
(* C1.  Original claim: on the static-fetch path, when every fetch gets a  *)
(* page on which the adapter finds no name and price, the call returns     *)
(* failure after exactly one fetch attempt.                                *)
(***************************************************************************)
C1_ParseFailureIsTerminal ==
    (Returned /\ AllOutcomes("incomplete")) => (attempt = 1 /\ result = None)

\* C1 as the code has it: on the static-fetch path, when every fetch gets a
\* page on which the adapter finds no name and price, the call returns failure
\* after retry_attempts fetch attempts, with no delay between them.
C1_ParseFailureIsRetried ==
    (Returned /\ AllOutcomes("incomplete") /\ Strategy = "static") =>
        (attempt = retry_attempts /\ delays = 0 /\ result = None)

C1_Witness ==
    /\ Returned
    /\ Strategy = "static"
    /\ outcomes = <<"incomplete", "incomplete", "incomplete">>

(***************************************************************************)
(* C2.  With retry_attempts = 3, when the first two fetches fail with      *)
(* RequestException and the third gets a page with a name and a price, the *)
(* call returns the successful result and has made exactly 2 delays.       *)
(***************************************************************************)
C2_TwoFailuresThenSuccess ==
    (retry_attempts = 3 /\ outcomes = <<"RequestException", "RequestException", "ok">>) =>
        (Returned /\ Success /\ delays = 2)

C2_Witness ==
    /\ Returned
    /\ outcomes = <<"RequestException", "RequestException", "ok">>
    /\ result /= None

(***************************************************************************)
(* C3.  Every call ends after at most retry_attempts fetch attempts: the   *)
(* attempts never exceed retry_attempts, and every step of a call raises   *)
(* Progress, which is bounded, so that no call runs for ever.  When every  *)
(* attempt fails with RequestException the call makes exactly              *)
(* retry_attempts attempts and retry_attempts - 1 delays and returns       *)
(* failure.                                                                *)
(***************************************************************************)
C3_AttemptsBounded ==
    /\ attempt + renders <= retry_attempts
    /\ Len(outcomes) <= attempt + renders
    /\ delays <= attempt
    /\ Progress <= 10 * retry_attempts + 5
    /\ (Returned /\ AllOutcomes("RequestException")) =>
          /\ attempt = retry_attempts
          /\ delays = retry_attempts - 1
          /\ result = None

\* C3 in full: the bounds above hold in every state, and every step of a call
\* raises Progress, so that a call takes at most 10 * retry_attempts + 5 steps.
C3_Terminates == []C3_AttemptsBounded /\ [][Progress' > Progress]_vars

C3_Witness ==
    /\ Returned
    /\ outcomes = <<"RequestException", "RequestException", "RequestException">>

(***************************************************************************)
(* C4.  Every browser session a rendering call starts is quit before the   *)
(* call returns: no call has returned with its session still open.         *)
(***************************************************************************)
C4_SessionReleased == Returned => driver /= "open"

(***************************************************************************)
(* C5.  Original claim: for a Meesho or Myntra URL a rendering failure     *)
(* (navigation fails, or the content marker does not appear in time) is    *)
(* retried up to the retry budget, so a call returns failure after a       *)
(* rendering failure only when retry_attempts renderings have been made.   *)
(***************************************************************************)
RenderingFailures == {"navigation_failed", "timeout"}

C5_RenderingIsRetried ==
    (Returned /\ Strategy = "dynamic" /\ outcomes /= <<>>
       /\ outcomes[Len(outcomes)] \in RenderingFailures) =>
        renders = retry_attempts

\* C5 as the code has it: a Meesho or Myntra URL that is rendered in a browser
\* is rendered exactly once; a rendering failure is not retried and the call
\* returns failure, also when the page has the marker and a name and a price.
C5_RenderingIsNotRetried ==
    (Returned /\ Strategy = "dynamic") =>
        /\ renders = 1 /\ attempt = 0 /\ delays = 0 /\ Len(outcomes) = 1
        /\ outcomes[1] \in RenderingFailures => result = None

C5_Witness ==
    /\ Returned
    /\ site \in {"meesho", "myntra"}
    /\ outcomes = <<"timeout">>
    /\ HasMarker(Soup(page))
    /\ Extract(site, Soup(page), url) /= None

(***************************************************************************)
(* C6.  scrape_product never raises: for every URL string, malformed ones  *)
(* included, the call returns a result or None.                            *)
(***************************************************************************)
C6_NeverRaises == pc /= "raised"

(***************************************************************************)
(* C7.  Every result scrape_product returns, on the static-fetch and on    *)
(* the rendering path and for every site, has a non-empty name and a price *)
(* greater than 0: a page with an empty name or with no positive price     *)
(* gives failure.                                                          *)
(***************************************************************************)
C7_ResultHasNameAndPrice ==
    result /= None =>
        /\ result.name /= NoneStr /\ Len(result.name) > 0
        /\ result.price /= None /\ PriceGreater(result.price, 0)

C7_Witness ==
    /\ Returned
    /\ Strategy = "dynamic"
    /\ site = "myntra"
    /\ result /= None

(***************************************************************************)
(* C8.  Every result scrape_product returns has a site field, equal to the *)
(* site identifier _identify_site gives the URL.                           *)
(***************************************************************************)
C8_ResultCarriesSite ==
    result /= None =>
        /\ "site" \in DOMAIN result
        /\ result["site"] = _identify_site(url)

(***************************************************************************)
(* C9.  Original claim: the strategy is a function of the site identifier  *)
(* alone: meesho and myntra are always rendered in a browser, the other    *)
(* four sites always fetched statically.                                   *)
(***************************************************************************)
C9_StrategyBySiteAlone ==
    Strategy /= "none" =>
        Strategy = IF site \in {"meesho", "myntra"} THEN "dynamic" ELSE "static"

\* C9 as the code has it: the strategy is a function of the site identifier and
\* of SELENIUM_AVAILABLE, which is fixed when the module is imported: meesho and
\* myntra are rendered in a browser when Selenium could be imported and fetched
\* statically when it could not; the other four sites are always fetched
\* statically.
C9_StrategyBySiteAndImport ==
    Strategy /= "none" =>
        /\ site \in Sites
        /\ site \in {"amazon", "flipkart", "ebay", "generic"} => Strategy = "static"
        /\ (site \in {"meesho", "myntra"} /\ SELENIUM_AVAILABLE) => Strategy = "dynamic"
        /\ (site \in {"meesho", "myntra"} /\ ~SELENIUM_AVAILABLE) => Strategy = "static"

C9_Witness ==
    /\ Returned
    /\ site = "myntra"
    /\ ~SELENIUM_AVAILABLE
    /\ Strategy = "static"

(***************************************************************************)
(* C10.  Original claim: the generic adapter is applied only to a page     *)
(* whose URL was classified generic; for a URL of one of the five named    *)
(* sites whose own adapter finds no match the call returns failure, also   *)
(* when the page has og:title and product:price:amount.                    *)
(***************************************************************************)
C10_NoCrossApplication ==
    /\ adapter = "generic" => site = "generic"
    /\ (Returned /\ site \in Sites \ {"generic"}
          /\ Extract(site, Soup(page), url) = None) => result = None

\* C10 as the code has it: the generic adapter is applied only to a page whose
\* URL was classified generic, or meesho or myntra while Selenium is not
\* available; for an amazon, flipkart or ebay URL, and for a meesho or myntra
\* URL that is rendered in a browser, a page on which the site's own adapter
\* finds no match gives failure, also when it has og:title and
\* product:price:amount.
OwnAdapterOnly ==
    \/ site \in {"amazon", "flipkart", "ebay"}
    \/ site \in {"meesho", "myntra"} /\ SELENIUM_AVAILABLE

C10_GenericOnlyWithoutOwnAdapter ==
    /\ adapter = "generic" => ~OwnAdapterOnly
    /\ adapter /= "none" => adapter = (IF OwnAdapterOnly THEN site ELSE "generic")
    /\ (Returned /\ OwnAdapterOnly /\ Extract(site, Soup(page), url) = None) =>
          result = None

C10_Witness ==
    /\ Returned
    /\ site = "ebay"
    /\ adapter = "ebay"
    /\ _scrape_generic(Soup(page), url) /= None
    /\ result = None

(***************************************************************************)
(* ProductScraper._identify_site on its own: one call on a URL put         *)
(* together from a scheme, a userinfo, a host, a port and a path or query. *)
(***************************************************************************)
InputSchemes  == { <<"h", "t", "t", "p", ":", "/", "/">>,
                   <<"H", "T", "T", "P", "S", ":", "/", "/">>,
                   <<"/", "/">>,
                   <<>> }
InputUserinfo == { <<>>,
                   <<"a", "m", "a", "z", "o", "n", "@">> }
InputHosts    == { <<"a", "m", "a", "z", "o", "n", ".", "c", "o", "m">>,
                   <<"w", "w", "w", ".", "F", "l", "i", "p", "k", "a", "r", "t", ".", "c", "o", "m">>,
                   <<"E", "B", "A", "Y", ".", "c", "o", "m">>,
                   <<"m", "e", "e", "s", "h", "o", ".", "c", "o", "m">>,
                   <<"m", "y", "n", "t", "r", "a", ".", "c", "o", "m">>,
                   <<"s", "h", "o", "p", ".", "c", "o", "m">>,
                   <<"f", "l", "i", "p", "k", "a", "r", "t", ".", "a", "m", "a", "z", "o", "n", ".", "c", "o", "m">>,
                   <<"m", "y", "n", "t", "r", "a", ".", "e", "b", "a", "y", ".", "c", "o", "m">>,
                   <<>>,
                   <<"[", "a", "m", "a", "z", "o", "n", ".", "c", "o", "m">> }
InputPorts    == { <<>>,
                   <<":", "8", "0">> }
InputPaths    == { <<>>,
                   <<"/", "a", "m", "a", "z", "o", "n">>,
                   <<"?", "q", "=", "e", "b", "a", "y">> }

\* the strings _identify_site is called with
SiteInputs ==
    { s \o u \o h \o p \o t : s \in InputSchemes, u \in InputUserinfo,
                              h \in InputHosts, p \in InputPorts, t \in InputPaths }

\* no scrape_product call is under way, but for url, site and pc
ScraperIdle ==
    /\ page = <<>>
    /\ SELENIUM_AVAILABLE = FALSE
    /\ attempt = 0
    /\ renders = 0
    /\ delays = 0
    /\ outcomes = <<>>
    /\ adapter = "none"
    /\ driver = "none"
    /\ result = None
    /\ EngineNew

InitSite ==
    /\ url \in SiteInputs
    /\ pc = "call"
    /\ site = "?"
    /\ ScraperIdle
    /\ ParserIdle
    /\ DbEmpty
    /\ ServiceIdle

\* one call of _identify_site(url): the ValueError of urlparse leaves it
IdentifySite ==
    /\ pc = "call"
    /\ IF UrlparseRaises(url)
       THEN pc' = "raised" /\ UNCHANGED site
       ELSE site' = _identify_site(url) /\ pc' = "done"
    /\ UNCHANGED <<url, page, SELENIUM_AVAILABLE, attempt, renders, delays, outcomes,
                   adapter, driver, result>>
    /\ UNCHANGED outside

NextSite == IdentifySite

SpecSite == InitSite /\ [][NextSite]_vars

\* the order in which _identify_site tests the site names
SiteOrder == <<"amazon", "flipkart", "ebay", "meesho", "myntra">>

\* the letters of a site name
SiteWord(s) ==
    CASE s = "amazon"   -> amazon
      [] s = "flipkart" -> flipkart
      [] s = "ebay"     -> ebay
      [] s = "meesho"   -> meesho
      [] s = "myntra"   -> myntra

\* the first site name, in the order of the tests, that occurs in a lowercased
\* string; generic when none does
Classified(where) ==
    LET hits == { i \in 1..Len(SiteOrder) : Contains(SiteWord(SiteOrder[i]), Lower(where)) }
    IN  IF hits = {} THEN "generic" ELSE SiteOrder[Least(hits)]

\* a scheme part after which urlparse finds a network location
HasAuthority(s) == Len(s) >= 2 /\ SubSeq(s, Len(s) - 1, Len(s)) = <<"/", "/">>

(***************************************************************************)
(* C11.  _identify_site is total: for every input string, malformed URLs   *)
(* included, the call returns one of amazon, flipkart, ebay, meesho,       *)
(* myntra, generic and never fails, and an input without a network         *)
(* location yields generic.  The code lets the ValueError of urlparse out. *)
(***************************************************************************)
C11_IdentifySiteIsTotal ==
    /\ (pc /= "call") => (pc = "done" /\ site \in Sites)
    /\ (pc /= "call" /\ Netloc(url) = <<>>) => site = "generic"

(***************************************************************************)
(* C12.  Original claim: the site names are matched, case-insensitively,   *)
(* against the host of the URL only, the first name in the order amazon,   *)
(* flipkart, ebay, meesho, myntra wins, and generic means no name matches. *)
(***************************************************************************)
C12_MatchesHostOnly ==
    \A s \in InputSchemes, u \in InputUserinfo, h \in InputHosts,
       p \in InputPorts, t \in InputPaths :
        (pc = "done" /\ url = s \o u \o h \o p \o t) =>
            site = IF HasAuthority(s) THEN Classified(h) ELSE "generic"

\* C12 as the code has it: the site names are matched, case-insensitively,
\* against the network location of the URL (userinfo, host and port; never the
\* path or the query), the first name in the order amazon, flipkart, ebay,
\* meesho, myntra wins, and generic means that no name occurs there.
C12_MatchesNetworkLocation ==
    \A s \in InputSchemes, u \in InputUserinfo, h \in InputHosts,
       p \in InputPorts, t \in InputPaths :
        (pc = "done" /\ url = s \o u \o h \o p \o t) =>
            site = IF HasAuthority(s) THEN Classified(u \o h \o p) ELSE "generic"

\* a host that names flipkart before amazon, with ebay in the query: amazon
C12_Witness ==
    /\ pc = "done"
    /\ url = <<"H", "T", "T", "P", "S", ":", "/", "/", "f", "l", "i", "p", "k", "a", "r", "t", ".", "a", "m", "a", "z", "o", "n", ".", "c", "o", "m", "?", "q", "=", "e", "b", "a", "y">>
    /\ site = "amazon"

(***************************************************************************)
(* str(x) of a float x > 0, which is repr(x): the shortest decimal that    *)
(* reads back as x, in exponent notation when the decimal point lies more  *)
(* than 16 digits right or more than 3 zeros left of the first digit.  A   *)
(* price of the model has fewer than 16 significant digits, so the digits  *)
(* of repr(x) are those of the decimal [m, e].                             *)
(***************************************************************************)
\* the decimal digits of a natural number
RECURSIVE IntDigits(_)
IntDigits(n) ==
    IF n < 10 THEN <<ToString(n)>>
    ELSE IntDigits(n \div 10) \o <<ToString(n % 10)>>

\* the exponent of repr: a sign and at least two digits
ExponentText(x) ==
    LET a  == IF x < 0 THEN -x ELSE x
        ds == IntDigits(a)
    IN  <<"e", IF x < 0 THEN "-" ELSE "+">> \o (IF Len(ds) < 2 THEN <<"0">> ELSE <<>>) \o ds

\* str(price)
float_repr(p) ==
    LET ds    == IntDigits(p.m)
        decpt == Len(ds) - p.e
        sig   == StripZeros(ds)
    IN  IF decpt <= -4 \/ decpt > 16
        THEN <<sig[1]>> \o (IF Len(sig) > 1 THEN <<".">> \o Tail(sig) ELSE <<>>)
             \o ExponentText(decpt - 1)
        ELSE IF p.e = 0 THEN ds \o <<".", "0">>
        ELSE IF decpt <= 0 THEN <<"0", ".">> \o Repeat("0", -decpt) \o ds
        ELSE SubSeq(ds, 1, decpt) \o <<".">> \o SubSeq(ds, decpt + 1, Len(ds))

(***************************************************************************)
(* ProductScraper._parse_price on its own: one call on a text, and a       *)
(* second call on str() of what the first returned.                        *)
(***************************************************************************)
\* the currency symbols of the pattern of line 329
CurrencySymbols == {"INR", "$", "EUR", "GBP", "JPY"}

\* comma-grouped decimal numbers, each with its value
GroupedNumbers ==
    { [text |-> <<"1", "2", ",", "3", "4", "5", ".", "5", "0">>, value |-> [m |-> 123455, e |-> 1]],
      [text |-> <<"1", ",", "2", "9", "9">>, value |-> [m |-> 1299, e |-> 0]],
      [text |-> <<"9", "9", "9">>, value |-> [m |-> 999, e |-> 0]],
      [text |-> <<"4", "9", ".", "9", "9">>, value |-> [m |-> 4999, e |-> 2]],
      [text |-> <<"1", ",", "2", "3", "4", ",", "5", "6", "7", ".", "8", "9">>, value |-> [m |-> 123456789, e |-> 2]],
      [text |-> <<"5">>, value |-> [m |-> 5, e |-> 0]] }

\* what stands before a number in a price text
PricePrefixes ==
    { <<>>, <<"-">>, <<"R", "s", ".", " ">>, <<"M", "R", "P", ":", " ", "INR">> }
    \cup { <<c>> : c \in CurrencySymbols }

\* price texts of one number
OneNumberTexts ==
    { pre \o n : pre \in PricePrefixes,
                 n \in { g.text : g \in GroupedNumbers }
                       \cup { <<"0">>,
                               <<"0", ".", "0", "0">>,
                               <<"1", "2", ".">>,
                               <<"0", ".", "0", "0", "0", "0", "1">>,
                               <<"0", ".", "0", "0", "0", "1">>,
                               <<"1", ".", "2", ".", "3">> } }

\* the first of two numbers in a price text, with its value
FirstNumbers ==
    { [text |-> <<"INR", "9", "9", "9">>, value |-> [m |-> 999, e |-> 0]],
      [text |-> <<"$", "5">>, value |-> [m |-> 5, e |-> 0]],
      [text |-> <<"EUR", "4", "9", ".", "9", "9">>, value |-> [m |-> 4999, e |-> 2]] }

\* whitespace and currency symbols between two numbers
NumberSeparators == { <<" ">>,
                      <<" ", "INR">>,
                      <<"GBP">>,
                      <<" ", " ">> }

\* the second of two numbers in a price text
SecondNumbers == { <<"1", ",", "2", "9", "9">>,
                   <<"7">>,
                   <<"0", ".", "5">> }

\* price texts of two numbers
TwoNumberTexts ==
    { a.text \o sep \o b : a \in FirstNumbers, sep \in NumberSeparators, b \in SecondNumbers }
    \cup { <<"INR", "9", "9", "9", ",", "INR", "1", ",", "2", "9", "9">>,
            <<"$", "5", " ", "/", " ", "7">>,
            <<"9", "9", "9", "-", "1", "2", "9", "9">> }

\* price texts without a number, and None
NoNumberTexts == { <<>>,
                   <<"N", "/", "A">>,
                   <<"F", "r", "e", "e">>,
                   <<" ">>,
                   <<"INR">>,
                   <<".">>,
                   <<"-">> } \cup {NoneStr}

\* the texts _parse_price is called with
PriceTexts == OneNumberTexts \cup TwoNumberTexts \cup NoNumberTexts

InitParse ==
    /\ text \in PriceTexts
    /\ price = None
    /\ reparsed = None
    /\ pc = "call"
    /\ url = <<>>
    /\ site = "?"
    /\ ScraperIdle
    /\ DbEmpty
    /\ ServiceIdle

\* price = self._parse_price(text)
ParsePrice ==
    /\ pc = "call"
    /\ price' = _parse_price(text)
    /\ pc' = "parsed"
    /\ UNCHANGED <<text, reparsed>>
    /\ UNCHANGED <<url, page, SELENIUM_AVAILABLE, site, attempt, renders, delays,
                   outcomes, adapter, driver, result>>
    /\ UNCHANGED <<store, session, parked>>

\* self._parse_price(str(price)), for a price that was returned
ParseRendered ==
    /\ pc = "parsed"
    /\ price /= None
    /\ reparsed' = _parse_price(float_repr(price))
    /\ pc' = "reparsed"
    /\ UNCHANGED <<text, price>>
    /\ UNCHANGED <<url, page, SELENIUM_AVAILABLE, site, attempt, renders, delays,
                   outcomes, adapter, driver, result>>
    /\ UNCHANGED <<store, session, parked>>

NextParse ==
    \/ ParsePrice
    \/ ParseRendered

SpecParse == InitParse /\ [][NextParse]_<<vars, parser_vars>>

\* the text holds a digit
HasDigit(t) == t /= NoneStr /\ \E i \in 1..Len(t) : t[i] \in Digits

\* texts that denote a number that is zero or negative
NonPositiveTexts ==
    { <<"0">>,
      <<"0", ".", "0", "0">>,
      <<"INR", "0">>,
      <<"$", "0", ".", "0", "0">> }
    \cup { <<"-">> \o g.text : g \in GroupedNumbers }

(***************************************************************************)
(* C13.  _parse_price never raises, returns None for every text that is    *)
(* empty, holds no number or denotes a number that is not positive ("",    *)
(* "N/A" and "-5" among them), and every value it returns is greater than  *)
(* 0.  The code drops the sign: "-5" gives 5.0.                            *)
(***************************************************************************)
C13_AbsentUnlessPositive ==
    (pc /= "call") =>
        /\ pc \in {"parsed", "reparsed"}
        /\ (price /= None => PriceGreater(price, 0))
        /\ (~HasDigit(text) => price = None)
        /\ (text \in NonPositiveTexts => price = None)

(***************************************************************************)
(* C14.  For a text of several numbers separated by whitespace and         *)
(* currency symbols, _parse_price returns the first number and not a value *)
(* built from more than one of them ("INR 999 INR 1,299" written with the  *)
(* rupee sign gives 999).  The code joins the digits: it gives 9991299.0.  *)
(***************************************************************************)
C14_FirstNumberWins ==
    \A a \in FirstNumbers, sep \in NumberSeparators, b \in SecondNumbers :
        (pc /= "call" /\ text = a.text \o sep \o b) => price = a.value

(***************************************************************************)
(* C15.  For each of the five currency symbols put before a comma-grouped  *)
(* decimal number, _parse_price returns the value of the number with the   *)
(* symbol and the group separators removed (12,345.50 after a rupee sign   *)
(* gives 12345.5), and the same value whichever of the symbols is used.    *)
(***************************************************************************)
C15_SymbolAndGroupsRemoved ==
    \A c \in CurrencySymbols, g \in GroupedNumbers :
        (pc /= "call" /\ text = <<c>> \o g.text) =>
            /\ price = g.value
            /\ \A d \in CurrencySymbols : _parse_price(<<d>> \o g.text) = price

C15_Witness ==
    /\ pc = "parsed"
    /\ text = <<"INR", "1", "2", ",", "3", "4", "5", ".", "5", "0">>
    /\ price = [m |-> 123455, e |-> 1]

(***************************************************************************)
(* C16.  _parse_price is idempotent through str(): for every text x on     *)
(* which it returns a value, _parse_price(str(_parse_price(x))) is that    *)
(* value.  str() of a float below 0.0001 is in exponent notation, of which *)
(* the code reads the mantissa only.                                       *)
(***************************************************************************)
C16_IdempotentThroughStr == (pc = "reparsed") => reparsed = price

(***************************************************************************)
(* DatabaseManager (utils/database.py).  A table is the set of its rows    *)
(* (products) or the sequence of its rows in rowid order (price_history);  *)
(* a REAL column holds a decimal [m, e] or NULL, which is None.  The       *)
(* columns category, currency, image_url and the timestamps are left out:  *)
(* no statement of the three operations reads them.                        *)
(***************************************************************************)
\* a float with an integer value
Dec(n) == [m |-> n, e |-> 0]

\* a <= b on floats
DecLeq(a, b) == a.m * Pow10(b.e) <= b.m * Pow10(a.e)

\* ((new_price - old_price) / old_price) * 100, as the fraction num / den
PriceChange(new_price, old_price) ==
    [num |-> (new_price.m * Pow10(old_price.e) - old_price.m * Pow10(new_price.e)) * 100,
     den |-> old_price.m * Pow10(new_price.e)]

\* SELECT ... FROM products WHERE product_url = ?
RowsOfUrl(u) == { r \in products : r.url = u }

\* add_product with the search for an inactive row forgotten: a new row is
\* inserted beside the inactive one
add_product_InsertsBesideInactive(name, u, alert_price, s, current_price) ==
    IF \E r \in RowsOfUrl(u) : r.is_active = 1
    THEN /\ db_return' = [op |-> "add_product", url |-> u, value |-> FALSE]
         /\ UNCHANGED <<products, price_history, sqlite_sequence>>
    ELSE /\ products' = products \cup
                {[id |-> sqlite_sequence.products + 1, name |-> name, url |-> u,
                  current_price |-> current_price, alert_price |-> alert_price,
                  site |-> s, is_active |-> 1]}
         /\ sqlite_sequence' = [sqlite_sequence EXCEPT !.products = @ + 1]
         /\ db_return' = [op |-> "add_product", url |-> u, value |-> TRUE]
         /\ UNCHANGED price_history

\* database.py:94-126.  The row is inserted with the next id AUTOINCREMENT
\* gives, which is never an id that was given before.
add_product(name, u, alert_price, s, current_price) ==
    IF \E r \in RowsOfUrl(u) : r.is_active = 1
    THEN /\ db_return' = [op |-> "add_product", url |-> u, value |-> FALSE]
         /\ UNCHANGED <<products, price_history, sqlite_sequence>>
    ELSE IF \E r \in RowsOfUrl(u) : r.is_active = 0
    THEN LET row == CHOOSE r \in RowsOfUrl(u) : r.is_active = 0
         IN  /\ products' = (products \ {row}) \cup
                    {[row EXCEPT !.is_active = 1, !.name = name, !.alert_price = alert_price,
                                 !.site = s, !.current_price = current_price]}
             /\ db_return' = [op |-> "add_product", url |-> u, value |-> TRUE]
             /\ UNCHANGED <<price_history, sqlite_sequence>>
    ELSE /\ products' = products \cup
                {[id |-> sqlite_sequence.products + 1, name |-> name, url |-> u,
                  current_price |-> current_price, alert_price |-> alert_price,
                  site |-> s, is_active |-> 1]}
         /\ sqlite_sequence' = [sqlite_sequence EXCEPT !.products = @ + 1]
         /\ db_return' = [op |-> "add_product", url |-> u, value |-> TRUE]
         /\ UNCHANGED price_history

\* database.py:171: new_price <= alert_price if alert_price else False
ShouldAlert(new_price, alert_price) ==
    IF PriceTruthy(alert_price) THEN DecLeq(new_price, alert_price) ELSE FALSE

\* price_change_of with the change taken relative to the new price
price_change_of_RelativeToNew(new_price, old_price) ==
    IF PriceTruthy(old_price) THEN PriceChange(old_price, new_price) ELSE None

\* database.py:146-148: price_change, None unless old_price is true
price_change_of(new_price, old_price) ==
    IF PriceTruthy(old_price) THEN PriceChange(new_price, old_price) ELSE None

\* update_price with the INSERT INTO price_history forgotten
update_price_NoHistoryRow(u, new_price, s, availability) ==
    IF RowsOfUrl(u) = {}
    THEN /\ db_return' = [op |-> "update_price", url |-> u, value |-> None]
         /\ UNCHANGED <<products, price_history, sqlite_sequence>>
    ELSE LET row == CHOOSE r \in RowsOfUrl(u) : TRUE
         IN  /\ products' = (products \ {row}) \cup {[row EXCEPT !.current_price = new_price]}
             /\ db_return' = [op |-> "update_price", url |-> u, value |->
                    [product_id   |-> row.id,
                     name         |-> row.name,
                     old_price    |-> row.current_price,
                     new_price    |-> new_price,
                     price_change |-> price_change_of(new_price, row.current_price),
                     alert_price  |-> row.alert_price,
                     should_alert |-> ShouldAlert(new_price, row.alert_price),
                     site         |-> row.site]]
             /\ UNCHANGED <<price_history, sqlite_sequence>>

\* update_price with a row of price_history written for a URL that has no
\* product, under the id that comes next
update_price_RecordsUnknownUrl(u, new_price, s, availability) ==
    IF RowsOfUrl(u) = {}
    THEN /\ price_history' = Append(price_history,
                [id |-> sqlite_sequence.price_history + 1,
                 product_id |-> sqlite_sequence.products + 1,
                 price |-> new_price, site |-> s, availability |-> availability])
         /\ sqlite_sequence' = [sqlite_sequence EXCEPT !.price_history = @ + 1]
         /\ db_return' = [op |-> "update_price", url |-> u, value |-> None]
         /\ UNCHANGED products
    ELSE LET row      == CHOOSE r \in RowsOfUrl(u) : TRUE
             new_site == IF s /= "" THEN s ELSE row.site
         IN  /\ products' = (products \ {row}) \cup
                    {[row EXCEPT !.current_price = new_price, !.site = new_site]}
             /\ price_history' = Append(price_history,
                    [id |-> sqlite_sequence.price_history + 1, product_id |-> row.id,
                     price |-> new_price, site |-> new_site, availability |-> availability])
             /\ sqlite_sequence' = [sqlite_sequence EXCEPT !.price_history = @ + 1]
             /\ db_return' = [op |-> "update_price", url |-> u, value |->
                    [product_id   |-> row.id,
                     name         |-> row.name,
                     old_price    |-> row.current_price,
                     new_price    |-> new_price,
                     price_change |-> price_change_of(new_price, row.current_price),
                     alert_price  |-> row.alert_price,
                     should_alert |-> ShouldAlert(new_price, row.alert_price),
                     site         |-> new_site]]

\* update_price with the UPDATE of products forgotten: the row of
\* price_history is written and the product keeps its current_price
update_price_KeepsCurrentPrice(u, new_price, s, availability) ==
    IF RowsOfUrl(u) = {}
    THEN /\ db_return' = [op |-> "update_price", url |-> u, value |-> None]
         /\ UNCHANGED <<products, price_history, sqlite_sequence>>
    ELSE LET row      == CHOOSE r \in RowsOfUrl(u) : TRUE
             new_site == IF s /= "" THEN s ELSE row.site
         IN  /\ price_history' = Append(price_history,
                    [id |-> sqlite_sequence.price_history + 1, product_id |-> row.id,
                     price |-> new_price, site |-> new_site, availability |-> availability])
             /\ sqlite_sequence' = [sqlite_sequence EXCEPT !.price_history = @ + 1]
             /\ db_return' = [op |-> "update_price", url |-> u, value |->
                    [product_id   |-> row.id,
                     name         |-> row.name,
                     old_price    |-> row.current_price,
                     new_price    |-> new_price,
                     price_change |-> price_change_of(new_price, row.current_price),
                     alert_price  |-> row.alert_price,
                     should_alert |-> ShouldAlert(new_price, row.alert_price),
                     site         |-> new_site]]
             /\ UNCHANGED products

\* database.py:128-173: update_price when no statement raises
update_price(u, new_price, s, availability) ==
    IF RowsOfUrl(u) = {}
    THEN /\ db_return' = [op |-> "update_price", url |-> u, value |-> None]
         /\ UNCHANGED <<products, price_history, sqlite_sequence>>
    ELSE LET row      == CHOOSE r \in RowsOfUrl(u) : TRUE
             new_site == IF s /= "" THEN s ELSE row.site
         IN  /\ products' = (products \ {row}) \cup
                    {[row EXCEPT !.current_price = new_price, !.site = new_site]}
             /\ price_history' = Append(price_history,
                    [id |-> sqlite_sequence.price_history + 1, product_id |-> row.id,
                     price |-> new_price, site |-> new_site, availability |-> availability])
             /\ sqlite_sequence' = [sqlite_sequence EXCEPT !.price_history = @ + 1]
             /\ db_return' = [op |-> "update_price", url |-> u, value |->
                    [product_id   |-> row.id,
                     name         |-> row.name,
                     old_price    |-> row.current_price,
                     new_price    |-> new_price,
                     price_change |-> price_change_of(new_price, row.current_price),
                     alert_price  |-> row.alert_price,
                     should_alert |-> ShouldAlert(new_price, row.alert_price),
                     site         |-> new_site]]

\* database.py:174-176: a statement of update_price raises (the file is locked,
\* the disk is full); nothing was committed, the connection is dropped
update_price_raises(u) ==
    /\ db_return' = [op |-> "update_price", url |-> u, value |-> None]
    /\ UNCHANGED <<products, price_history, sqlite_sequence>>

\* database.py:286-297: DELETE FROM products WHERE id = ?.  No connection
\* sets PRAGMA foreign_keys, so the FOREIGN KEY of price_history is not
\* enforced and no row of price_history is touched.
delete_product(product_id) ==
    /\ products' = { r \in products : r.id /= product_id }
    /\ db_return' = [op |-> "delete_product", value |-> TRUE]
    /\ UNCHANGED <<price_history, sqlite_sequence>>

\* database.py:178-212: the active rows as dicts (the order of last_updated
\* is not modelled: this is the set of them)
get_all_products == { r \in products : r.is_active = 1 }

(***************************************************************************)
(* DatabaseManager on its own: any sequence of add_product, update_price   *)
(* and delete_product calls on a new database.                             *)
(***************************************************************************)
\* the prices history may hold, and the products ids that are given out
MaxHistory == 2
MaxProductIds == 2

DbUrls   == { http \o amazon \o dotcom, http \o shop \o dotcom }
DbNames  == {"Widget"}
NewPrices == {Dec(999), Dec(0), Dec(-10)}
AlertPrices == {None, Dec(0), Dec(1000), Dec(-5)}
FirstPrices == {None, Dec(1099)}

\* a database file that is already there when DatabaseManager opens it
\* (CREATE TABLE IF NOT EXISTS keeps its rows): one product that was set
\* inactive, with the row of price_history of its last price
DbWithInactiveRow ==
    /\ products = {[id |-> 1, name |-> "Old", url |-> http \o amazon \o dotcom,
                    current_price |-> Dec(7), alert_price |-> Dec(5),
                    site |-> "generic", is_active |-> 0]}
    /\ price_history = <<[id |-> 1, product_id |-> 1, price |-> Dec(7),
                          site |-> "generic", availability |-> "In Stock"]>>
    /\ sqlite_sequence = [products |-> 1, price_history |-> 1]
    /\ db_return = [op |-> "none"]

InitDb ==
    /\ DbEmpty \/ DbWithInactiveRow
    /\ ServiceIdle
    /\ ParserIdle
    /\ ScraperIdle
    /\ url = <<>>
    /\ site = "?"
    /\ pc = "idle"

AddProduct ==
    /\ sqlite_sequence.products < MaxProductIds
    /\ \E name \in DbNames, u \in DbUrls, alert_price \in AlertPrices,
          current_price \in FirstPrices :
            add_product(name, u, alert_price, "generic", current_price)
    /\ UNCHANGED <<vars, parser_vars, service_vars>>

UpdatePrice ==
    /\ Len(price_history) < MaxHistory
    /\ \E u \in DbUrls, new_price \in NewPrices :
            update_price(u, new_price, "", "In Stock")
    /\ UNCHANGED <<vars, parser_vars, service_vars>>

UpdatePriceRaises ==
    /\ \E u \in DbUrls : update_price_raises(u)
    /\ UNCHANGED <<vars, parser_vars, service_vars>>

DeleteProduct ==
    /\ \E product_id \in 1..MaxProductIds : delete_product(product_id)
    /\ UNCHANGED <<vars, parser_vars, service_vars>>

NextDb ==
    \/ AddProduct
    \/ UpdatePrice
    \/ UpdatePriceRaises
    \/ DeleteProduct

SpecDb == InitDb /\ [][NextDb]_db_vars

\* the dict the last call returned, when that call was an update_price that
\* returned one
Updated == db_return.op = "update_price" /\ db_return.value /= None

(***************************************************************************)
(* C17.  The should_alert of update_price is (new_price <= alert_price)    *)
(* and (alert_price > 0), for every new price and every stored alert       *)
(* price: 0, negative and NULL alert prices never trigger.  The code tests *)
(* the truth of alert_price, which a negative alert price has.             *)
(***************************************************************************)
C17_ShouldAlertFormula ==
    Updated =>
        LET info == db_return.value
        IN  info.should_alert =
                (/\ info.alert_price /= None
                 /\ DecLeq(info.new_price, info.alert_price)
                 /\ PriceGreater(info.alert_price, 0))

(***************************************************************************)
(* C18.  Original claim: the price_change of update_price is None exactly  *)
(* when the stored old price is NULL, and otherwise it is                  *)
(* (new_price - old_price) / old_price * 100.                              *)
(***************************************************************************)
C18_AbsentOnlyWithoutOldPrice ==
    Updated =>
        LET info == db_return.value
        IN  /\ (info.price_change = None) <=> (info.old_price = None)
            /\ info.old_price /= None =>
                    info.price_change = PriceChange(info.new_price, info.old_price)

\* C18 as the code has it: the price_change of update_price is None exactly
\* when the stored old price is NULL or 0, and otherwise it is
\* (new_price - old_price) / old_price * 100 (old 1099 and new 999 give a
\* change between -9.2 and -9.0); no stored old price makes the computation fail.
C18_AbsentWithoutOldPriceOrZero ==
    Updated =>
        LET info == db_return.value
            old  == info.old_price
            new  == info.new_price
        IN  /\ (info.price_change = None) <=> (old = None \/ old = Dec(0))
            /\ (old /= None /\ old /= Dec(0)) =>
                    /\ info.price_change.den /= 0
                    /\ info.price_change.num * old.m * Pow10(new.e) =
                         (new.m * Pow10(old.e) - old.m * Pow10(new.e)) * 100
                             * info.price_change.den
            /\ (old = Dec(1099) /\ new = Dec(999)) =>
                    /\ -92 * info.price_change.den < 10 * info.price_change.num
                    /\ 10 * info.price_change.num < -90 * info.price_change.den

C18_Witness ==
    /\ Updated
    /\ db_return.value.old_price = Dec(1099)
    /\ db_return.value.new_price = Dec(999)
    /\ db_return.value.price_change = [num |-> -10000, den |-> 1099]

(***************************************************************************)
(* C19.  price_history is append-only: over any sequence of add_product,   *)
(* update_price and delete_product calls every row once written stays as   *)
(* it was, but for the rows of a product that is deleted, which go with    *)
(* the product.  delete_product removes the row of products only: the rows *)
(* of price_history that point to it stay.                                 *)
(***************************************************************************)
C19_HistoryGoesWithProduct ==
    [][LET deleted == {r.id : r \in products} \ {r.id : r \in products'}
       IN  /\ \A k \in 1..Len(price_history) :
                 price_history[k].product_id \notin deleted =>
                     \E j \in 1..Len(price_history') : price_history'[j] = price_history[k]
           /\ \A j \in 1..Len(price_history') :
                 price_history'[j].product_id \notin deleted]_db_vars

(***************************************************************************)
(* PriceTrackerService.check_all_prices (main.py:40-120): one run over the *)
(* products of a database, each scraped by scrape_product, whose steps are *)
(* the actions of Spec.                                                    *)
(***************************************************************************)
\* the products a database holds when a run starts
MaxTracked == 2

\* the URLs of tracked products
ServiceUrls ==
    { http \o amazon \o dotcom,                 \* http://amazon.com
      http \o meesho \o dotcom,                 \* http://meesho.com
      http \o <<"[">> \o amazon \o dotcom }       \* http://[amazon.com

\* the alert prices of tracked products
ServiceAlerts == {Dec(2000), Dec(0)}

\* the pages the URLs serve while a run lasts: an empty one, one of Amazon
\* (Test Widget, 1234) and one with Myntra's markup (Cotton Kurta Set, 799)
ServicePages == { <<>>, <<1, 2>>, <<10, 11>> }

\* the table products after add_product was called for n new URLs
Tracked(n, urls, alerts) ==
    { [id |-> k, name |-> "Widget", url |-> urls[k], current_price |-> None,
       alert_price |-> alerts[k], site |-> "generic", is_active |-> 1] : k \in 1..n }

InitService ==
    /\ \E n \in 0..MaxTracked :
         \E urls \in [1..n -> ServiceUrls], alerts \in [1..n -> ServiceAlerts] :
            /\ \A a, b \in 1..n : a /= b => urls[a] /= urls[b]
            /\ products = Tracked(n, urls, alerts)
            /\ sqlite_sequence = [products |-> n, price_history |-> 0]
    /\ price_history = <<>>
    /\ db_return = [op |-> "none"]
    /\ SELENIUM_AVAILABLE \in BOOLEAN
    /\ url = <<>>
    /\ page = <<>>
    /\ pc = "idle"
    /\ site = "?"
    /\ attempt = 0
    /\ renders = 0
    /\ delays = 0
    /\ outcomes = <<>>
    /\ adapter = "none"
    /\ driver = "none"
    /\ result = None
    /\ EngineNew
    /\ ParserIdle
    /\ TELEGRAM_BOT_TOKEN \in BOOLEAN
    /\ results = None
    /\ svc = "idle"
    /\ listed = <<>>
    /\ idx = 0
    /\ successful_checks = 0
    /\ alerts_sent = 0
    /\ notifications = 0
    /\ sleeps = 0

\* rows in the order of ORDER BY last_updated DESC, for rows that were added
\* one after another and not updated since: the row added last comes first
ListOf(rows) ==
    CHOOSE q \in [1..Cardinality(rows) -> rows] :
        \A a, b \in 1..Cardinality(rows) : a < b => q[a].id > q[b].id

\* main.py:46-55: the list is read; with no product the run returns at line 50
CheckStart ==
    /\ svc = "idle"
    /\ listed' = ListOf(get_all_products)
    /\ svc' = IF get_all_products = {} THEN "returned" ELSE "loop"
    /\ idx' = 0
    /\ successful_checks' = 0
    /\ alerts_sent' = 0
    /\ UNCHANGED <<notifications, sleeps, results, TELEGRAM_BOT_TOKEN>>
    /\ UNCHANGED <<vars, parser_vars, db_vars>>

\* main.py:57-62: the next product of the list is taken up and scrape_product
\* is called with its URL
ScrapeCall ==
    /\ svc = "loop"
    /\ idx < Len(listed)
    /\ idx' = idx + 1
    /\ svc' = "scraping"
    /\ url' = listed[idx + 1].url
    /\ page' \in ServicePages
    /\ pc' = "call"
    /\ site' = "?"
    /\ attempt' = 0
    /\ renders' = 0
    /\ delays' = 0
    /\ outcomes' = <<>>
    /\ adapter' = "none"
    /\ driver' = "none"
    /\ result' = None
    /\ UNCHANGED <<SELENIUM_AVAILABLE, listed, successful_checks, alerts_sent,
                   notifications, sleeps, results, TELEGRAM_BOT_TOKEN>>
    /\ UNCHANGED <<session, parked, parser_vars, db_vars>>

\* main.py:64, 111-112: scrape_product returned None
ScrapeFailed ==
    /\ svc = "scraping"
    /\ pc = "done"
    /\ result = None
    /\ svc' = "loop"
    /\ UNCHANGED <<listed, idx, successful_checks, alerts_sent, notifications, sleeps, results, TELEGRAM_BOT_TOKEN>>
    /\ UNCHANGED <<vars, parser_vars, db_vars>>

\* ScrapeRaised with the exception not caught inside the loop: it ends the run
ScrapeRaised_EndsRun ==
    /\ svc = "scraping"
    /\ pc = "raised"
    /\ svc' = "done"
    /\ UNCHANGED <<listed, idx, successful_checks, alerts_sent, notifications, sleeps, results, TELEGRAM_BOT_TOKEN>>
    /\ UNCHANGED <<vars, parser_vars, db_vars>>

\* main.py:114-115: scrape_product raised; the exception is logged
ScrapeRaised ==
    /\ svc = "scraping"
    /\ pc = "raised"
    /\ svc' = "loop"
    /\ UNCHANGED <<listed, idx, successful_checks, alerts_sent, notifications, sleeps, results, TELEGRAM_BOT_TOKEN>>
    /\ UNCHANGED <<vars, parser_vars, db_vars>>

\* main.py:97-99: channels = ['email'], and 'telegram' when a token is set
Channels == IF TELEGRAM_BOT_TOKEN THEN {"email", "telegram"} ELSE {"email"}

\* AnySent with the alert counted as sent whatever the channels reported
AnySent_WhateverReported(r) == DOMAIN r /= {}

\* any(results.values())
AnySent(r) == \E c \in DOMAIN r : r[c]

\* result.get('site', '')
SiteOf(res) == IF "site" \in DOMAIN res THEN res.site ELSE ""

\* main.py:64-110: scrape_product returned a result and update_price ran to
\* its end; with the dict it returned the check counts, the notifier is called
\* when should_alert is set, and the delay of line 110 follows
UpdateReturns ==
    /\ svc = "scraping"
    /\ pc = "done"
    /\ result /= None
    /\ update_price(listed[idx].url, result.price, SiteOf(result), result.availability)
    /\ LET update_info == db_return'.value
       IN  IF update_info = None
           THEN UNCHANGED <<successful_checks, alerts_sent, notifications, sleeps, results>>
           ELSE /\ successful_checks' = successful_checks + 1
                /\ IF update_info.should_alert
                   THEN /\ notifications' = notifications + 1
                        /\ results' \in [Channels -> BOOLEAN]
                        /\ alerts_sent' = IF AnySent(results') THEN alerts_sent + 1
                                          ELSE alerts_sent
                   ELSE UNCHANGED <<notifications, alerts_sent, results>>
                /\ sleeps' = sleeps + 1
    /\ svc' = "loop"
    /\ UNCHANGED <<listed, idx, TELEGRAM_BOT_TOKEN>>
    /\ UNCHANGED <<vars, parser_vars>>

\* main.py:66-73: scrape_product returned a result and update_price returned
\* None because a statement raised
UpdateFails ==
    /\ svc = "scraping"
    /\ pc = "done"
    /\ result /= None
    /\ update_price_raises(listed[idx].url)
    /\ svc' = "loop"
    /\ UNCHANGED <<listed, idx, successful_checks, alerts_sent, notifications, sleeps, results, TELEGRAM_BOT_TOKEN>>
    /\ UNCHANGED <<vars, parser_vars>>

\* main.py:117-120: the list is done; the completion is logged
CheckDone ==
    /\ svc = "loop"
    /\ idx = Len(listed)
    /\ svc' = "done"
    /\ UNCHANGED <<listed, idx, successful_checks, alerts_sent, notifications, sleeps, results, TELEGRAM_BOT_TOKEN>>
    /\ UNCHANGED <<vars, parser_vars, db_vars>>

NextService ==
    \/ CheckStart
    \/ ScrapeCall
    \/ Identify
    \/ FetchRequestException
    \/ FetchException
    \/ FetchPage
    \/ SeleniumStart
    \/ SeleniumStartFails
    \/ SeleniumGet
    \/ SeleniumGetFails
    \/ SeleniumWait
    \/ SeleniumWaitTimeout
    \/ SeleniumExtract
    \/ ScrapeFailed
    \/ ScrapeRaised
    \/ UpdateReturns
    \/ UpdateFails
    \/ CheckDone

service_state == <<vars, db_vars, service_vars>>

SpecService == InitService /\ [][NextService]_service_state

\* a step of a run in which the handling of one product's scrape ends
IterationEnds == svc = "scraping" /\ svc' = "loop"

\* the step writes exactly one row of price_history, for the product that is
\* being checked and with the price that its scrape just returned
WritesScrapedPrice ==
    /\ svc = "scraping"
    /\ pc = "done"
    /\ result /= None
    /\ Len(price_history') = Len(price_history) + 1
    /\ SubSeq(price_history', 1, Len(price_history)) = price_history
    /\ price_history'[Len(price_history')].product_id = listed[idx].id
    /\ price_history'[Len(price_history')].price = result.price

(***************************************************************************)
(* C20.  Original claim: in a run of check_all_prices a row of             *)
(* price_history is written only after the scrape of that product in the   *)
(* same iteration returned a result, with the price of that result, and    *)
(* exactly one row is written for each successful extraction and none for  *)
(* a failed one.                                                           *)
(***************************************************************************)
C20_OneRowPerExtraction ==
    [][/\ (price_history' /= price_history) => WritesScrapedPrice
       /\ IterationEnds =>
            Len(price_history') = Len(price_history)
                + (IF pc = "done" /\ result /= None THEN 1 ELSE 0)]_service_state

\* C20 as the code has it: a row of price_history is written only after the
\* scrape of that product in the same iteration returned a result, with the
\* price of that result; one row is written for a successful extraction when
\* update_price returns its dict, and none when update_price returns None or
\* the extraction failed.
C20_OneRowPerRecordedExtraction ==
    [][/\ (price_history' /= price_history) => WritesScrapedPrice
       /\ IterationEnds =>
            Len(price_history') = Len(price_history)
                + (IF pc = "done" /\ result /= None /\ db_return'.value /= None
                   THEN 1 ELSE 0)]_service_state

\* the first product's scrape returned a result and its price is in the one
\* row of price_history
C20_Witness ==
    /\ svc = "loop"
    /\ idx = 1
    /\ pc = "done"
    /\ result /= None
    /\ Updated
    /\ Len(price_history) = 1
    /\ price_history[1].price = result.price
    /\ price_history[1].product_id = listed[1].id

(***************************************************************************)
(* C21.  Between any two consecutive scrape_product calls of one run of    *)
(* check_all_prices a delay of SLEEP_BETWEEN_REQUESTS elapses, whatever    *)
(* the outcome of the earlier call: when the handling of a product that    *)
(* is not the last of the list ends, one sleep has been performed.         *)
(***************************************************************************)
C21_DelayBetweenScrapes ==
    [][(IterationEnds /\ idx < Len(listed)) => sleeps' = sleeps + 1]_service_state

(***************************************************************************)
(* Two scrape_product calls for different URLs on one ProductScraper, run  *)
(* by two threads.  The locals of the call whose thread is running are in  *)
(* the variables of the call; those of the other call are in parked, and a *)
(* thread switch exchanges them.  self.session is the one object both      *)
(* calls use.                                                              *)
(***************************************************************************)
\* the locals of the call that is running
CallLocals ==
    [url |-> url, page |-> page, pc |-> pc, site |-> site, attempt |-> attempt,
     renders |-> renders, delays |-> delays, outcomes |-> outcomes,
     adapter |-> adapter, driver |-> driver, result |-> result]

\* the locals of a call that was just made with URL u, which serves page p
CallOf(u, p) ==
    [url |-> u, page |-> p, pc |-> "call", site |-> "?", attempt |-> 0,
     renders |-> 0, delays |-> 0, outcomes |-> <<>>, adapter |-> "none",
     driver |-> "none", result |-> None]

InitWorkers ==
    /\ \E u, v \in ServiceUrls, p, q \in ServicePages :
          /\ u /= v
          /\ url = u
          /\ page = p
          /\ parked = CallOf(v, q)
    /\ SELENIUM_AVAILABLE \in BOOLEAN
    /\ pc = "call"
    /\ site = "?"
    /\ attempt = 0
    /\ renders = 0
    /\ delays = 0
    /\ outcomes = <<>>
    /\ adapter = "none"
    /\ driver = "none"
    /\ result = None
    /\ session = {}
    /\ ParserIdle
    /\ DbEmpty
    /\ ServiceIdle

\* the interpreter passes control from the thread of one call to the thread
\* of the other; self.session stays what it is
Switch ==
    /\ parked' = CallLocals
    /\ url' = parked.url
    /\ page' = parked.page
    /\ pc' = parked.pc
    /\ site' = parked.site
    /\ attempt' = parked.attempt
    /\ renders' = parked.renders
    /\ delays' = parked.delays
    /\ outcomes' = parked.outcomes
    /\ adapter' = parked.adapter
    /\ driver' = parked.driver
    /\ result' = parked.result
    /\ UNCHANGED <<SELENIUM_AVAILABLE, session>>
    /\ UNCHANGED <<parser_vars, store>>

NextWorkers ==
    \/ Switch
    \/ Identify
    \/ FetchRequestException
    \/ FetchException
    \/ FetchPage
    \/ SeleniumStart
    \/ SeleniumStartFails
    \/ SeleniumGet
    \/ SeleniumGetFails
    \/ SeleniumWait
    \/ SeleniumWaitTimeout
    \/ SeleniumExtract

SpecWorkers == InitWorkers /\ [][NextWorkers]_vars

\* what a call with the locals c returns when it runs alone on a new engine,
\* its URL serving c.page and its fetches or renderings ending as c.outcomes
\* say: the value of the adapter of its site when the last one ended well
ReturnsAlone(c) ==
    IF c.outcomes = <<>> \/ c.outcomes[Len(c.outcomes)] /= "ok"
    THEN None
    ELSE LET s == _identify_site(c.url)
         IN  IF UsesSelenium(s, SELENIUM_AVAILABLE)
             THEN Extract(s, Soup(c.page), c.url)
             ELSE WithSite(Extract(StaticAdapter(s), Soup(c.page), c.url), s)

\* both calls, where they have returned, returned what they return alone
ResultsAsAlone ==
    /\ pc = "done" => result = ReturnsAlone(CallLocals)
    /\ parked.pc = "done" => parked.result = ReturnsAlone(parked)

(***************************************************************************)
(* C22.  Concurrent scrape_product calls for different URLs on the same    *)
(* engine do not interfere: no step of a call changes state of the engine  *)
(* that the other call uses too, and under every interleaving each call    *)
(* returns what it returns when run alone against the same pages.          *)
(***************************************************************************)
C22_NoSharedMutableState == []ResultsAsAlone /\ [][session' = session]_vars

\* the call is for an amazon URL and the first request of its fetch loop got
\* the page with span#productTitle " Test Widget " and span.a-price-whole
\* "₹1,234"
AmazonFixtureFetched ==
    /\ site = "amazon"
    /\ page = <<1, 2>>
    /\ outcomes /= <<>>
    /\ outcomes[1] \notin {"RequestException", "Exception"}

(***************************************************************************)
(* C23.  For an amazon URL whose fetched page matches the Amazon adapter's *)
(* primary selectors (span#productTitle with text "Test Widget",           *)
(* span.a-price-whole with text "₹1,234"), scrape_product returns on the   *)
(* first attempt a result with name "Test Widget", price 1234.0,           *)
(* availability In Stock and site amazon, with no delay performed.         *)
(***************************************************************************)
C23_AmazonEndToEnd ==
    AmazonFixtureFetched =>
        /\ Returned
        /\ attempt = 1
        /\ outcomes = <<"ok">>
        /\ delays = 0
        /\ adapter = "amazon"
        /\ result /= None
        /\ result.name = <<"T", "e", "s", "t", " ", "W", "i", "d", "g", "e", "t">>
        /\ result.price = [m |-> 1234, e |-> 0]
        /\ result.availability = "In Stock"
        /\ result.site = "amazon"
        /\ result.url = url

C23_Witness ==
    /\ AmazonFixtureFetched
    /\ Returned
    /\ result /= None
    /\ result.price = [m |-> 1234, e |-> 0]

(***************************************************************************)
(* The adapters of amazon, flipkart and ebay on documents whose markup has *)
(* drifted: an element of an earlier locator is there with no text or with *)
(* a text that is no price, and an element of a later locator has the      *)
(* value.                                                                  *)
(***************************************************************************)
MaxDriftLen == 3

\* the elements such documents are made of, by number
DriftPool ==
    << El("span", "productTitle", {}, {}, <<"T", "e", "s", "t", " ", "W", "i", "d", "g", "e", "t">>),
       El("span", "", {"a-price-whole"}, {}, <<"N", "/", "A">>),
       El("span", "priceblock_ourprice", {}, {}, <<"INR", "1", ",", "2", "3", "4">>),
       El("span", "", {"VU-ZEz"}, {}, <<>>),
       El("span", "", {"B_NuCI"}, {}, <<"P", "h", "o", "n", "e">>),
       El("div", "", {"Nx9bqj", "CxhGGd"}, {}, <<"F", "r", "e", "e">>),
       El("div", "", {"_30jeq3", "_16Jk6d"}, {}, <<"INR", "9", "9", "9">>),
       El("span", "", {}, {"h1.x-item-title__mainTitle"}, <<"D", "e", "t", "a", "i", "l", "s", " ", "a", "b", "o", "u", "t">>),
       El("h1", "itemTitle", {}, {}, <<"L", "a", "m", "p">>),
       El("span", "", {"ux-textspans"}, {"div.x-price-primary"}, <<"$", "0", ".", "0", "0">>),
       El("span", "", {"x-price-approx__price"}, {}, <<"$", "1", "2", ".", "5", "0">>) >>

DriftPages == UNION { [1..n -> 1..Len(DriftPool)] : n \in 0..MaxDriftLen }

DriftSoup(p) == [k \in 1..Len(p) |-> DriftPool[p[k]]]

DriftAdapters == {"amazon", "flipkart", "ebay"}

InitAdapters ==
    /\ adapter \in DriftAdapters
    /\ page \in DriftPages
    /\ url = http \o shop \o dotcom
    /\ pc = "call"
    /\ site = "?"
    /\ SELENIUM_AVAILABLE = FALSE
    /\ attempt = 0
    /\ renders = 0
    /\ delays = 0
    /\ outcomes = <<>>
    /\ driver = "none"
    /\ result = None
    /\ EngineNew
    /\ ParserIdle
    /\ DbEmpty
    /\ ServiceIdle

\* product_info = self._scrape_amazon(soup, url), or _scrape_flipkart, or
\* _scrape_ebay
ApplyAdapter ==
    /\ pc = "call"
    /\ result' = Extract(adapter, DriftSoup(page), url)
    /\ pc' = "done"
    /\ UNCHANGED <<url, page, SELENIUM_AVAILABLE, site, attempt, renders, delays,
                   outcomes, adapter, driver>>
    /\ UNCHANGED outside

NextAdapters == ApplyAdapter

SpecAdapters == InitAdapters /\ [][NextAdapters]_vars

\* the candidate locators of an adapter for the name, in the order of the code
NameLocators(which) ==
    CASE which = "amazon"   -> <<Css("span", "productTitle", {}, "")>>
      [] which = "flipkart" -> <<Css("span", "", {"VU-ZEz"}, ""),
                                 Css("span", "", {"B_NuCI"}, ""),
                                 Css("h1", "", {"yhB1nd"}, "")>>
      [] which = "ebay"     -> <<Css("span", "", {}, "h1.x-item-title__mainTitle"),
                                 Css("h1", "itemTitle", {}, "")>>

\* the candidate locators of an adapter for the price, in the order of the code
PriceLocators(which) ==
    CASE which = "amazon"   -> <<Css("span", "", {"a-price-whole"}, ""),
                                 Css("span", "priceblock_ourprice", {}, "")>>
      [] which = "flipkart" -> <<Css("div", "", {"Nx9bqj", "CxhGGd"}, ""),
                                 Css("div", "", {"_30jeq3", "_16Jk6d"}, ""),
                                 Css("div", "", {"_30jeq3"}, "")>>
      [] which = "ebay"     -> <<Css("span", "", {"ux-textspans"}, "div.x-price-primary"),
                                 Css("span", "", {"x-price-approx__price"}, "")>>

\* the name an adapter makes of the element a locator matched
NameOf(which, elem) ==
    IF elem = None THEN NoneStr
    ELSE IF which = "ebay" THEN Strip(Remove(get_text(elem, TRUE), DetailsAbout))
    ELSE get_text(elem, TRUE)

\* the price an adapter makes of the element a locator matched
PriceOf(elem) == IF elem = None THEN None ELSE _parse_price(get_text(elem, FALSE))

\* the name of the first locator, in order, that yields a non-empty name
RECURSIVE FirstValidName(_, _, _)
FirstValidName(which, soup, locators) ==
    IF locators = <<>> THEN NoneStr
    ELSE LET name == NameOf(which, select_one(soup, Head(locators)))
         IN  IF Truthy(name) THEN name
             ELSE FirstValidName(which, soup, Tail(locators))

\* the price of the first locator, in order, that yields a positive price
RECURSIVE FirstValidPrice(_, _)
FirstValidPrice(soup, locators) ==
    IF locators = <<>> THEN None
    ELSE LET p == PriceOf(select_one(soup, Head(locators)))
         IN  IF PriceTruthy(p) THEN p ELSE FirstValidPrice(soup, Tail(locators))

(***************************************************************************)
(* C24.  Each of the adapters of amazon, flipkart and ebay tries its       *)
(* candidate locators for the name and for the price in order and takes    *)
(* the first one that yields a non-empty name or a positive price: when    *)
(* some locator yields a name and some locator yields a price, the adapter *)
(* returns these first valid values, also when an earlier locator matched  *)
(* an element with an empty or unparseable text.                           *)
(***************************************************************************)
C24_FirstValidLocatorWins ==
    LET soup  == DriftSoup(page)
        first_name  == FirstValidName(adapter, soup, NameLocators(adapter))
        first_price == FirstValidPrice(soup, PriceLocators(adapter))
    IN  (pc = "done" /\ Truthy(first_name) /\ PriceTruthy(first_price)) =>
            /\ result /= None
            /\ result.name = first_name
            /\ result.price = first_price

\* the attempts so far that raised RequestException and were not the final one
DelayedAttempts ==
    {k \in 1..Len(outcomes) : outcomes[k] = "RequestException" /\ k < retry_attempts}

(***************************************************************************)
(* C25.  On the static-fetch path an inter-attempt delay is performed only *)
(* after an attempt that failed with RequestException and is not the final *)
(* one; an attempt that fetched a page with incomplete data, or that       *)
(* failed with any other exception, is followed by the next attempt with   *)
(* no delay.  At every point of a call the number of delays equals the     *)
(* number of non-final attempts that raised RequestException, and every    *)
(* step that adds a delay is such an attempt.                              *)
(***************************************************************************)
C25_DelaysCountRequestExceptions == delays = Cardinality(DelayedAttempts)

C25_DelayOnlyAfterRequestException ==
    /\ []C25_DelaysCountRequestExceptions
    /\ [][delays' /= delays =>
            /\ pc = "fetch"
            /\ attempt < retry_attempts - 1
            /\ outcomes' = Append(outcomes, "RequestException")
            /\ delays' = delays + 1]_vars

\* a call that returned after a RequestException, a page with incomplete data
\* and another exception, with the one delay of the first attempt
C25_Witness ==
    /\ Returned
    /\ outcomes = <<"RequestException", "incomplete", "Exception">>
    /\ delays = 1

\* what a scrape_product call for URL u returns when it found the price p
Scraped(u, p) ==
    [name |-> <<"T", "e", "s", "t", " ", "W", "i", "d", "g", "e", "t">>, price |-> p, url |-> u, image_url |-> NoneStr,
     availability |-> "In Stock", site |-> "amazon"]

\* the prices the pages serve while a run lasts
ScrapedPrices == {Dec(1234), Dec(799)}

\* main.py:57-62, with the scrape_product call taken as one step: the next
\* product of the list is taken up, scrape_product is called with its URL,
\* and it returns a result or None, or raises
ScrapeReturns ==
    /\ svc = "loop"
    /\ idx < Len(listed)
    /\ idx' = idx + 1
    /\ svc' = "scraping"
    /\ url' = listed[idx + 1].url
    /\ \/ pc' = "raised" /\ result' = None
       \/ pc' = "done" /\ result' = None
       \/ pc' = "done" /\ \E p \in ScrapedPrices : result' = Scraped(url', p)
    /\ UNCHANGED <<page, SELENIUM_AVAILABLE, site, attempt, renders, delays, outcomes,
                   adapter, driver>>
    /\ UNCHANGED <<listed, successful_checks, alerts_sent, notifications, sleeps, results, TELEGRAM_BOT_TOKEN>>
    /\ UNCHANGED <<session, parked, parser_vars, db_vars>>

NextRun ==
    \/ CheckStart
    \/ ScrapeReturns
    \/ ScrapeFailed
    \/ ScrapeRaised
    \/ UpdateReturns
    \/ UpdateFails
    \/ CheckDone

\* a run of check_all_prices that is not held up for ever: the interpreter
\* goes on executing it, and every scrape_product call and database call it
\* waits for comes to an end
SpecRun == InitService /\ [][NextRun]_service_state /\ WF_service_state(NextRun)

\* the step makes a scrape_product call
CallMade == svc' = "scraping" /\ svc /= "scraping"

\* every scrape_product call of a run is for the product that follows in the
\* list the one of the call before, the first call for the first product, and
\* the completion log comes after the call for the last product
CallsInListOrder ==
    /\ [][CallMade => /\ idx' = idx + 1
                      /\ idx' <= Len(listed)
                      /\ url' = listed[idx'].url]_service_state
    /\ [][(svc /= "idle" /\ ~CallMade) => UNCHANGED <<listed, idx>>]_service_state
    /\ [](svc = "done" => idx = Len(listed))

(***************************************************************************)
(* C26.  Original claim: check_all_prices calls scrape_product exactly     *)
(* once for every product of the list get_all_products returned, in list   *)
(* order; a scrape failure, an update failure or an exception while one    *)
(* product is handled never keeps the remaining products from being        *)
(* checked; and the run always reaches its completion log.                 *)
(***************************************************************************)
C26_AlwaysReachesCompletionLog ==
    /\ CallsInListOrder
    /\ <>(svc = "done")

\* C26 as the code has it: check_all_prices calls scrape_product exactly once
\* for every product of the list, in list order, whatever happens while a
\* product is handled; a run whose list has at least one product reaches its
\* completion log, and a run whose list is empty returns before it, having
\* called nothing.
C26_ReachesCompletionLogUnlessEmpty ==
    /\ CallsInListOrder
    /\ <>(svc \in {"done", "returned"})
    /\ [](svc = "returned" => (Len(listed) = 0 /\ idx = 0))
    /\ [](svc = "done" => Len(listed) > 0)

\* a run over two products has reached its completion log although no check
\* succeeded and the scrape_product call for the last product raised
C26_Witness ==
    /\ svc = "done"
    /\ Len(listed) = 2
    /\ idx = 2
    /\ successful_checks = 0
    /\ pc = "raised"
    /\ price_history = <<>>

\* the step calls notifier.send_price_alert
NotifierInvoked == notifications' /= notifications

(***************************************************************************)
(* C27.  In check_all_prices the notifier is invoked for a product only    *)
(* when that product's scrape succeeded, update_price returned a record    *)
(* and the record's should_alert is true; at every point of a run          *)
(* alerts_sent <= successful_checks <= number of products; and alerts_sent *)
(* is incremented only when at least one channel reported success.         *)
(***************************************************************************)
C27_CountersInOrder ==
    /\ alerts_sent <= notifications
    /\ notifications <= successful_checks
    /\ alerts_sent <= successful_checks
    /\ successful_checks <= idx
    /\ successful_checks <= Len(listed)

C27_NotifierOnlyOnAlert ==
    /\ []C27_CountersInOrder
    /\ [][NotifierInvoked =>
            /\ svc = "scraping"
            /\ pc = "done"
            /\ result /= None
            /\ db_return'.op = "update_price"
            /\ db_return'.value /= None
            /\ db_return'.value.should_alert
            /\ db_return'.value.new_price = result.price
            /\ notifications' = notifications + 1
            /\ successful_checks' = successful_checks + 1]_service_state
    /\ [][alerts_sent' /= alerts_sent =>
            /\ NotifierInvoked
            /\ \E c \in DOMAIN results' : results'[c] = TRUE
            /\ alerts_sent' = alerts_sent + 1]_service_state
    /\ [][(NotifierInvoked /\ \A c \in DOMAIN results' : results'[c] = FALSE) =>
            alerts_sent' = alerts_sent]_service_state

\* a run over two products has ended with both checks successful and the
\* notifier invoked for both; one alert went out and the other one was
\* reported as failed by every channel
C27_Witness ==
    /\ svc = "done"
    /\ successful_checks = 2
    /\ notifications = 2
    /\ alerts_sent = 1
    /\ results \in [Channels -> {FALSE}]

\* the step is an update_price call for a URL that no row of products has
UpdateOfUnknownUrl ==
    /\ db_return'.op = "update_price"
    /\ RowsOfUrl(db_return'.url) = {}

(***************************************************************************)
(* C28.  update_price called with a URL that has no row in products        *)
(* returns None and leaves both the table products and the table           *)
(* price_history unchanged.                                                *)
(***************************************************************************)
C28_UnknownUrlChangesNothing ==
    [][UpdateOfUnknownUrl =>
          /\ db_return'.value = None
          /\ products' = products
          /\ price_history' = price_history
          /\ sqlite_sequence' = sqlite_sequence]_db_vars

\* update_price has returned None for a URL that has no row, while the tables
\* hold a product of another URL and a row of its history
C28_Witness ==
    /\ db_return.op = "update_price"
    /\ db_return.value = None
    /\ RowsOfUrl(db_return.url) = {}
    /\ products /= {}
    /\ price_history /= <<>>
    /\ \A k \in 1..Len(price_history) :
          \E r \in products : r.id = price_history[k].product_id

\* the step is an update_price call that returned its record
SuccessfulUpdate == db_return'.op = "update_price" /\ db_return'.value /= None

\* the step is an update_price call that returned None
FailedUpdate == db_return'.op = "update_price" /\ db_return'.value = None

(***************************************************************************)
(* C29.  A successful update_price(url, p) sets the product's              *)
(* current_price to p and appends exactly one row of price_history with    *)
(* price p for that product's id, and an update_price that returns None    *)
(* does neither; the old_price it reports is the current_price stored      *)
(* immediately before the call; the rows of all other products and all     *)
(* rows of price_history that were there are unchanged; immediately after  *)
(* it the product's current_price equals the price of its newest history   *)
(* row.                                                                    *)
(***************************************************************************)
C29_UpdateWritesPriceAndHistory ==
    [][/\ SuccessfulUpdate =>
            LET info == db_return'.value
                rows == RowsOfUrl(db_return'.url)
                last == price_history'[Len(price_history')]
            IN  /\ Cardinality(rows) = 1
                /\ \A row \in rows :
                     /\ info.product_id = row.id
                     /\ info.old_price = row.current_price
                     /\ products' = (products \ {row}) \cup
                            {[row EXCEPT !.current_price = info.new_price,
                                         !.site = info.site]}
                     /\ \A r \in products' :
                            r.id = row.id => r.current_price = last.price
                /\ Len(price_history') = Len(price_history) + 1
                /\ SubSeq(price_history', 1, Len(price_history)) = price_history
                /\ last.product_id = info.product_id
                /\ last.price = info.new_price
       /\ FailedUpdate => (products' = products /\ price_history' = price_history)
      ]_db_vars

\* the second update of one of two products has returned: it reports the
\* price the first update stored, and price_history holds the rows of both
C29_Witness ==
    /\ Updated
    /\ Cardinality(products) = 2
    /\ Len(price_history) = 2
    /\ db_return.value.old_price = Dec(999)
    /\ db_return.value.new_price = Dec(0)
    /\ price_history[1].price = Dec(999)
    /\ price_history[2].price = Dec(0)
    /\ \E r \in products : r.id = db_return.value.product_id /\ r.current_price = Dec(0)

\* the ids of the rows of products
ProductIds == { r.id : r \in products }

\* no two rows of products have the same URL (product_url UNIQUE)
OneRowPerUrl == \A r1, r2 \in products : r1.url = r2.url => r1 = r2

\* the step is an add_product call
AddProductCalled == db_return'.op = "add_product"

(***************************************************************************)
(* C30.  After any sequence of add_product, update_price and               *)
(* delete_product calls the table products holds at most one row per URL;  *)
(* add_product for a URL that already has an active row returns False and  *)
(* changes nothing, for a URL with an inactive row it reactivates and      *)
(* overwrites that row keeping its id, and otherwise it inserts one new    *)
(* active row and returns True.                                            *)
(***************************************************************************)
C30_AddProductBranches ==
    /\ []OneRowPerUrl
    /\ [][AddProductCalled =>
            LET u    == db_return'.url
                rows == RowsOfUrl(u)
            IN  IF \E r \in rows : r.is_active = 1
                THEN /\ db_return'.value = FALSE
                     /\ products' = products
                     /\ price_history' = price_history
                     /\ sqlite_sequence' = sqlite_sequence
                ELSE IF rows /= {}
                THEN /\ db_return'.value = TRUE
                     /\ \A old \in rows :
                          \E new \in products' :
                             /\ new.id = old.id
                             /\ new.url = u
                             /\ new.is_active = 1
                             /\ new.name \in DbNames
                             /\ new.alert_price \in AlertPrices
                             /\ new.current_price \in FirstPrices
                             /\ products' \ {new} = products \ {old}
                     /\ price_history' = price_history
                     /\ sqlite_sequence' = sqlite_sequence
                ELSE /\ db_return'.value = TRUE
                     /\ \E new \in products' :
                             /\ new \notin products
                             /\ new.id \notin ProductIds
                             /\ new.id > sqlite_sequence.products
                             /\ new.url = u
                             /\ new.is_active = 1
                             /\ products' = products \cup {new}
                     /\ price_history' = price_history]_db_vars

\* add_product has returned True for the URL of the product that was inactive:
\* the row has kept its id and the row of its history, is active, and has the
\* name and the prices of the call
C30_Witness ==
    /\ db_return.op = "add_product"
    /\ db_return.value = TRUE
    /\ price_history /= <<>>
    /\ price_history[1].price = Dec(7)
    /\ \E r \in products :
          /\ r.url = db_return.url
          /\ r.id = price_history[1].product_id
          /\ r.is_active = 1
          /\ r.name = "Widget"
          /\ r.current_price = Dec(1099)
    /\ sqlite_sequence.products = 1

=============================================================================
